---- MODULE Spec2Model ----
(***************************************************************************)
(* vorg: the import pipeline and the repository consistency engine.        *)
(*                                                                         *)
(* Strings that the program compares or sorts (hashes, extensions) are     *)
(* sequences of ASCII codes, ordered as Rust orders String and as SQLite   *)
(* orders TEXT under the BINARY collation.  A file's bytes are a natural   *)
(* number; 0 is the empty file.                                            *)
(***************************************************************************)
EXTENDS Integers, Sequences, FiniteSets, TLC

VARIABLES
    src,         \* the files outside the repository: path -> bytes
    db,          \* the connection's view of vorg.db and its transaction state
    storeDirs,   \* the shard directories that exist under <repo>/store
    storeFiles,  \* the files under <repo>/store: [dir, stem, ext, bytes]
    pc,          \* where the single caller is inside the running operation
    cur,         \* the operation's running or last import_file:
                 \* [path, hash, ext, bytes, kind]
    inDir,       \* TRUE while import_file runs on behalf of import_dir
    dirStack,    \* import_dir's dir_stack
    entries,     \* the entries read_dir has still to yield for the current directory
    db_files,    \* check_data_integrity's db_files
    store_files, \* check_data_integrity's store_files
    wrong_hash,  \* check_data_integrity's wrong_hash
    i,           \* check_data_integrity's index into db_files (0-based)
    j,           \* check_data_integrity's index into store_files (0-based)
    result,      \* check_data_integrity's result, a sequence of lines
    ret,         \* the running or last operation: [op, path, kind, report, faulted]
    pre,         \* history: what that operation found when it began
    clean,       \* history: no import was cut short by a crash, an IO failure or a
                 \* failure of the datastore
    outside,     \* history: the changes made to the store and to the database
                 \* file from outside the program
    schema,      \* the tables, columns, indices and triggers of the database file
    layout       \* the repository directory: what store and thumbnail are, and
                 \* whether the file vorg.db is there

vars == <<src, db, storeDirs, storeFiles, pc, cur, inDir, dirStack, entries,
          db_files, store_files, wrong_hash, i, j, result, ret, pre, clean, outside,
          schema, layout>>

----------------------------------------------------------------------------
(* Bounds *)

\* The number of different non-empty (video) file contents: bytes 1..NumVideos.
NumVideos == 2

\* The longest list given to the merge of check_data_integrity in SpecMerge.
MaxLen == 2

\* The number of changes made to the store from outside the program.
MaxOutside == 1

----------------------------------------------------------------------------
(* Strings *)

\* "mp4", the default extension of video/mp4
Ext_mp4 == <<109, 112, 52>>

\* "txt"
Ext_txt == <<116, 120, 116>>

\* "avi"
Ext_avi == <<97, 118, 105>>

\* Rust's a < b on String, SQLite's BINARY collation: bytewise lexicographic.
RECURSIVE StrLess(_, _)
StrLess(a, b) ==
    IF b = <<>> THEN FALSE
    ELSE IF a = <<>> THEN TRUE
    ELSE IF a[1] # b[1] THEN a[1] < b[1]
    ELSE StrLess(Tail(a), Tail(b))

\* The order of (String, String) tuples that Vec::sort uses on store_files.
PairLess(p, q) ==
    \/ StrLess(p[1], q[1])
    \/ p[1] = q[1] /\ StrLess(p[2], q[2])

\* One lowercase hex digit, as hex::encode writes it.
HexDigit(n) == IF n < 10 THEN 48 + n ELSE 87 + n

\* The digest of a file's bytes.  SHA-224 is modelled as an injective map of the
\* contents to 12-bit digests: 4d7 for the empty file, then 4e0, 4e9, 4f2, ...
\* so that different contents can share their first two hex digits.
Digest(bytes) == (1239 + 9 * bytes) % 4096

\* Repo::hash: the hex string of the digest of the file's bytes.
Sha224Hex(bytes) ==
    LET d == Digest(bytes)
    IN  <<HexDigit(d \div 256), HexDigit((d \div 16) % 16), HexDigit(d % 16)>>

Bytes == 0 .. NumVideos

----------------------------------------------------------------------------
(* The metadata store: db.rs *)

\* The tables a freshly created database holds.
create_db ==
    [collections |-> {}, items |-> {}, tags |-> {}, collection_tag |-> {}]

\* A create_db that does not create the index on the names of the tags.
create_db_schema_NoTagIndex ==
    [tables |-> {"tags", "collections", "items", "collection_tag", "title_fts",
                 "title_fts_data", "title_fts_idx", "title_fts_docsize",
                 "title_fts_config"},
     columns |-> [t \in {"tags", "collections", "items", "collection_tag"} |->
                    CASE t = "tags" -> {<<"tag_id", "INTEGER">>, <<"name", "TEXT">>}
                      [] t = "collections" ->
                            {<<"collection_id", "INTEGER">>, <<"title", "TEXT">>}
                      [] t = "items" ->
                            {<<"item_id", "INTEGER">>, <<"collection_id", "INTEGER">>,
                             <<"ext", "TEXT">>, <<"hash", "VARCHAR(64)">>}
                      [] t = "collection_tag" ->
                            {<<"collection_id", "INTEGER">>, <<"tag_id", "INTEGER">>}],
     indices |-> {"hash_index"},
     triggers |-> {"title_insert", "title_delete", "title_update"}]

\* The schema create_db gives the database file: the tables (those of the fts5
\* virtual table included), the columns of the data tables with their declared
\* types, the indices created by a statement, and the triggers.
create_db_schema ==
    [tables |-> {"tags", "collections", "items", "collection_tag", "title_fts",
                 "title_fts_data", "title_fts_idx", "title_fts_docsize",
                 "title_fts_config"},
     columns |-> [t \in {"tags", "collections", "items", "collection_tag"} |->
                    CASE t = "tags" -> {<<"tag_id", "INTEGER">>, <<"name", "TEXT">>}
                      [] t = "collections" ->
                            {<<"collection_id", "INTEGER">>, <<"title", "TEXT">>}
                      [] t = "items" ->
                            {<<"item_id", "INTEGER">>, <<"collection_id", "INTEGER">>,
                             <<"ext", "TEXT">>, <<"hash", "VARCHAR(64)">>}
                      [] t = "collection_tag" ->
                            {<<"collection_id", "INTEGER">>, <<"tag_id", "INTEGER">>}],
     indices |-> {"hash_index", "tag_index"},
     triggers |-> {"title_insert", "title_delete", "title_update"}]

\* The repository directory as Repo::create_repo leaves it: store and thumbnail
\* are directories and vorg.db is a file.
CreatedLayout == [store |-> "dir", thumbnail |-> "dir", vorg_db |-> TRUE]

\* DB::new on a path without a database: a connection with no open transaction.
\* cur is what the connection sees; saved is what is committed.
DB_new == [cur |-> create_db, inTx |-> FALSE, saved |-> create_db]

\* The rowid SQLite gives a new row of an INTEGER PRIMARY KEY table: one more
\* than the largest rowid in use.
NextRowId(ids) ==
    IF ids = {} THEN 1 ELSE (CHOOSE m \in ids : \A n \in ids : n <= m) + 1

\* INSERT INTO collections(title) VALUES(?) RETURNING collection_id
NewCollectionId(t) == NextRowId({c.collection_id : c \in t.collections})

add_collection(t, title) ==
    [t EXCEPT !.collections =
        @ \cup {[collection_id |-> NewCollectionId(t), title |-> title]}]

\* CREATE UNIQUE INDEX hash_index ON items (hash): whether inserting an item
\* with this hash violates the index.
hash_index_NoIndex(t, hash) == FALSE

hash_index(t, hash) == \E it \in t.items : it.hash = hash

\* FOREIGN KEY (collection_id) REFERENCES collections(collection_id)
CollectionExists(t, collection_id) ==
    \E c \in t.collections : c.collection_id = collection_id

NewItemId(t) == NextRowId({it.item_id : it \in t.items})

\* An insert into an items table without the foreign key, given the id of a
\* collection that does not exist.
add_item_to_collection_Dangling(t, collection_id, hash, ext) ==
    [t EXCEPT !.items =
        @ \cup {[item_id |-> NewItemId(t), collection_id |-> collection_id + 1,
                 hash |-> hash, ext |-> ext]}]

\* INSERT ... INTO items(collection_id, hash, ext) VALUES (?, ?, ?) RETURNING item_id
add_item_to_collection(t, collection_id, hash, ext) ==
    [t EXCEPT !.items =
        @ \cup {[item_id |-> NewItemId(t), collection_id |-> collection_id,
                 hash |-> hash, ext |-> ext]}]

\* A plain INSERT INTO tags(name) on a table without the unique index.
InsertOrIgnoreTag_NoIgnore(t, tag) ==
    [t EXCEPT !.tags =
        @ \cup {[tag_id |-> NextRowId({g.tag_id : g \in t.tags}), name |-> tag]}]

\* INSERT OR IGNORE INTO tags(name) VALUES (?), with the unique index tag_index
InsertOrIgnoreTag(t, tag) ==
    IF \E g \in t.tags : g.name = tag THEN t
    ELSE [t EXCEPT !.tags =
            @ \cup {[tag_id |-> NextRowId({g.tag_id : g \in t.tags}), name |-> tag]}]

\* Whether INSERT INTO collection_tag ... SELECT ?, tag_id FROM tags WHERE name=?
\* is rejected: the foreign key on collection_id, or the composite primary key.
LinkRejected(t, collection_id, tag) ==
    \E g \in t.tags :
        /\ g.name = tag
        /\ \/ ~CollectionExists(t, collection_id)
           \/ [collection_id |-> collection_id, tag_id |-> g.tag_id] \in t.collection_tag

\* An import that links no tag.
LinkTag_None(t, collection_id, tag) == t

LinkTag(t, collection_id, tag) ==
    [t EXCEPT !.collection_tag =
        @ \cup {[collection_id |-> collection_id, tag_id |-> g.tag_id] :
                    g \in {g \in t.tags : g.name = tag}}]

\* The conflict clause of the item insert.  OR ROLLBACK ends the transaction and
\* undoes it; the plain default (ABORT) would undo only the statement and leave
\* the transaction open with the collection row in it.
OnHashConflict_Abort(t0, t1) == [cur |-> t1, inTx |-> TRUE, saved |-> t0]

\* A conflict clause that undoes the item insert only and keeps, committed, the
\* collection row inserted before it.
OnHashConflict_KeepsCollection(t0, t1) == [cur |-> t1, inTx |-> FALSE, saved |-> t1]

OnHashConflict(t0, t1) == [cur |-> t0, inTx |-> FALSE, saved |-> t0]

\* The reserved tag import_file attaches.
META_INCOMPLETE == "meta:Incomplete"

\* The places where the datastore itself can fail a statement of import_file.
Faults == {"none", "begin", "collection", "item", "tag", "link", "commit"}

\* The datastore failures the repository's caller is put through.
RepoFaults == {"none", "item", "commit"}

\* Whether the transaction stays open matters only once it has begun.
KeepChoices(fault) == IF fault \in {"none", "begin"} THEN {FALSE} ELSE BOOLEAN

\* A statement failed for a reason of the datastore (disk full, I/O error).  The
\* function returns at once and never rolls back; SQLite either leaves the
\* transaction open (keep) or has rolled it back on its own.
StatementFailed(t0, t, keep) ==
    IF keep THEN [cur |-> t, inTx |-> TRUE, saved |-> t0]
    ELSE [cur |-> t0, inTx |-> FALSE, saved |-> t0]

\* COMMIT TRANSACTION, and import_file's `?` on it: the connection afterwards and
\* what import_file returns.
commit_transaction_Unchecked(t0, t, fault, keep) ==
    IF fault = "commit"
    THEN [db |-> StatementFailed(t0, t, keep), res |-> "Ok"]
    ELSE [db |-> [cur |-> t, inTx |-> FALSE, saved |-> t], res |-> "Ok"]

commit_transaction(t0, t, fault, keep) ==
    IF fault = "commit"
    THEN [db |-> StatementFailed(t0, t, keep), res |-> "DB"]
    ELSE [db |-> [cur |-> t, inTx |-> FALSE, saved |-> t], res |-> "Ok"]

\* DB::import_file(title, hash, ext): the connection afterwards and the result.
DB_import_file(d, title, hash, ext, fault, keep) ==
    IF d.inTx \/ fault = "begin"
    THEN \* BEGIN TRANSACTION fails (also: "cannot start a transaction within a
         \* transaction")
         [db |-> d, res |-> "DB"]
    ELSE
    LET t0 == d.cur
        cid == NewCollectionId(t0)
        t1 == add_collection(t0, title)
        iid == NewItemId(t1)
        t2 == add_item_to_collection(t1, cid, hash, ext)
        t3 == InsertOrIgnoreTag(t2, META_INCOMPLETE)
        t4 == LinkTag(t3, iid, META_INCOMPLETE)
    IN  IF fault = "collection"
        THEN [db |-> StatementFailed(t0, t0, keep), res |-> "DB"]
        ELSE IF hash_index(t1, hash)
        THEN [db |-> OnHashConflict(t0, t1), res |-> "Duplicate"]
        ELSE IF fault = "item"
        THEN [db |-> StatementFailed(t0, t1, keep), res |-> "Duplicate"]
        ELSE IF fault = "tag"
        THEN [db |-> StatementFailed(t0, t2, keep), res |-> "DB"]
        ELSE IF LinkRejected(t3, iid, META_INCOMPLETE)
        THEN [db |-> StatementFailed(t0, t3, TRUE), res |-> "DB"]
        ELSE IF fault = "link"
        THEN [db |-> StatementFailed(t0, t3, keep), res |-> "DB"]
        ELSE commit_transaction(t0, t4, fault, keep)

\* An opening that creates the database anew.
Reopen_Recreating(d) == [cur |-> create_db, inTx |-> FALSE, saved |-> create_db]

\* The connection is dropped (the process ends) and the repository is opened
\* again: a transaction left open is rolled back.
Reopen(d) == [cur |-> d.saved, inTx |-> FALSE, saved |-> d.saved]

\* DB::get_items' first query: every item joined with its collection, in
\* ascending order of hash.
RECURSIVE OrderByHash(_)
OrderByHash(rows) ==
    IF rows = {} THEN <<>>
    ELSE LET first == CHOOSE r \in rows : \A q \in rows : ~StrLess(q.hash, r.hash)
         IN  <<first>> \o OrderByHash(rows \ {first})

\* A get_items without ORDER BY: the rows come as they were inserted.
RECURSIVE OrderByRowId(_)
OrderByRowId(rows) ==
    IF rows = {} THEN <<>>
    ELSE LET first == CHOOSE r \in rows :
                          \A q \in rows : r.collection_id <= q.collection_id
         IN  <<first>> \o OrderByRowId(rows \ {first})

get_items_Unordered(t) ==
    OrderByRowId(
        {[hash |-> it.hash, title |-> c.title, ext |-> it.ext,
          collection_id |-> c.collection_id,
          tags |-> {g.name : g \in {g \in t.tags :
                        [collection_id |-> c.collection_id, tag_id |-> g.tag_id]
                            \in t.collection_tag}}] :
            <<c, it>> \in {x \in t.collections \X t.items :
                              x[1].collection_id = x[2].collection_id}})

\* DB::get_items: each joined row with the names of its collection's tags.
get_items(t) ==
    OrderByHash(
        {[hash |-> it.hash, title |-> c.title, ext |-> it.ext,
          collection_id |-> c.collection_id,
          tags |-> {g.name : g \in {g \in t.tags :
                        [collection_id |-> c.collection_id, tag_id |-> g.tag_id]
                            \in t.collection_tag}}] :
            <<c, it>> \in {x \in t.collections \X t.items :
                              x[1].collection_id = x[2].collection_id}})

----------------------------------------------------------------------------
(* The files outside the repository *)

\* A path: the names of its parent directories, its file stem and its extension.
SrcRoot == [dir |-> <<>>, stem |-> "in", hasExt |-> FALSE, ext |-> <<>>]

SrcSub == [dir |-> <<"in">>, stem |-> "sub", hasExt |-> FALSE, ext |-> <<>>]

\* in/a.mp4
FileA == [dir |-> <<"in">>, stem |-> "a", hasExt |-> TRUE, ext |-> Ext_mp4]

\* in/t.txt
FileT == [dir |-> <<"in">>, stem |-> "t", hasExt |-> TRUE, ext |-> Ext_txt]

\* in/sub/b, a file name without an extension
FileB == [dir |-> <<"in", "sub">>, stem |-> "b", hasExt |-> FALSE, ext |-> <<>>]

SrcDirs == {SrcRoot, SrcSub}

SrcFiles == {FileA, FileT, FileB}

NoPath == [dir |-> <<>>, stem |-> "", hasExt |-> FALSE, ext |-> <<>>]

\* Path::exists, Path::is_dir
Exists(p) == p \in SrcDirs \/ p \in DOMAIN src

IsDir(p) == p \in SrcDirs

\* fs::read_dir: the entries of a directory
read_dir(d) == {p \in SrcDirs \cup DOMAIN src : p.dir = Append(d.dir, d.stem)}

\* The source file is gone (renamed away or removed).
RemoveSrc_Keep(p) == src

RemoveSrc(p) == [q \in (DOMAIN src) \ {p} |-> src[q]]

----------------------------------------------------------------------------
(* The repository: lib.rs *)

\* An oracle that takes every file for a video.
magic_file_AllVideo(bytes) == "video/mp4"

\* The classification oracle (libmagic with MIME_TYPE) on a file's bytes.
magic_file(bytes) == IF bytes = 0 THEN "inode/x-empty" ELSE "video/mp4"

\* SUPPORTED_MIMETYPES: MIME type -> default extension
SUPPORTED_MIMETYPES == [m \in {"video/mp4"} |-> Ext_mp4]

\* file.extension(), or the default extension of the MIME type
ExtOf(p, default_extension) == IF p.hasExt THEN p.ext ELSE default_extension

\* store/<hash[0..2]>: the shard directory's name
store_subfolder(hash) == SubSeq(hash, 1, 2)

\* <hash[2..]>: the stem of the stored file's name
StoreStem(hash) == SubSeq(hash, 3, Len(hash))

\* store_path: store/<hash[0..2]>/<hash[2..]>.<ext>
store_path(hash, ext) ==
    [dir |-> store_subfolder(hash), stem |-> StoreStem(hash), ext |-> ext]

\* The file of the store at a path, if any.
StoredAt(sp) ==
    {f \in storeFiles : f.dir = sp.dir /\ f.stem = sp.stem /\ f.ext = sp.ext}

\* The store after a file with these bytes was written or moved to sp, replacing
\* what was there.
WriteStore(sp, bytes) ==
    (storeFiles \ StoredAt(sp))
        \cup {[dir |-> sp.dir, stem |-> sp.stem, ext |-> sp.ext, bytes |-> bytes]}

NoCall == [path |-> NoPath, hash |-> <<>>, ext |-> <<>>, bytes |-> 0, kind |-> "none"]

NoRet ==
    [op |-> "none", path |-> NoPath, kind |-> "none", report |-> <<>>,
     faulted |-> FALSE]

\* The operation `op` on `path` begins.
Begins(op, path) == [NoRet EXCEPT !.op = op, !.path = path, !.kind = "running"]

\* What an operation finds when it begins: the files outside the repository,
\* whether the repository is as Repo::new created it, and how many changes were
\* made to the store from outside.
Snapshot ==
    [src |-> src, fresh |-> db = DB_new /\ storeDirs = {} /\ storeFiles = {},
     outside |-> Len(outside)]

CheckVarsUnchanged ==
    UNCHANGED <<db_files, store_files, wrong_hash, i, j, result, outside, schema,
                layout>>

\* A step inside an operation: the history of its beginning stays.
Inside == UNCHANGED pre /\ CheckVarsUnchanged

\* An import_dir that suppresses the IO errors too.
ImportFileReturns_Suppressing(r, c, kind, ents) ==
    /\ cur' = [c EXCEPT !.kind = kind]
    /\ clean' = (clean /\ kind # "IO" /\ ~r.faulted)
    /\ IF inDir
       THEN /\ pc' = "dir_loop"
            /\ ret' = r
            /\ entries' = ents
            /\ UNCHANGED <<inDir, dirStack>>
       ELSE /\ pc' = "idle"
            /\ ret' = [r EXCEPT !.kind = kind]
            /\ inDir' = FALSE
            /\ dirStack' = <<>>
            /\ entries' = {}

\* import_file returns `kind`.  Called by import, the operation is over; called
\* by import_dir (whose loop has the entries `ents` left), an IO error ends the
\* directory import and any other result lets the loop go on.
ImportFileReturns(r, c, kind, ents) ==
    /\ cur' = [c EXCEPT !.kind = kind]
    /\ clean' = (clean /\ kind # "IO" /\ ~r.faulted)
    /\ IF inDir /\ kind # "IO"
       THEN /\ pc' = "dir_loop"
            /\ ret' = r
            /\ entries' = ents
            /\ UNCHANGED <<inDir, dirStack>>
       ELSE /\ pc' = "idle"
            /\ ret' = [r EXCEPT !.kind = kind]
            /\ inDir' = FALSE
            /\ dirStack' = <<>>
            /\ entries' = {}

\* import_file up to and including the metadata transaction
\* (classify, hash, title, extension, DB::import_file).
ImportFileDb(p, r, fault, keep, ents) ==
    LET mime_type == magic_file(src[p])
    IN  IF mime_type \notin DOMAIN SUPPORTED_MIMETYPES
        THEN /\ ImportFileReturns(r, [NoCall EXCEPT !.path = p, !.bytes = src[p]],
                                  "Unsupported", ents)
             /\ UNCHANGED db
        ELSE LET hash == Sha224Hex(src[p])
                 title == p
                 ext == ExtOf(p, SUPPORTED_MIMETYPES[mime_type])
                 c == [path |-> p, hash |-> hash, ext |-> ext, bytes |-> src[p],
                       kind |-> "running"]
                 done == DB_import_file(db, title, ext, hash, fault, keep)
                 rf == [r EXCEPT !.faulted =
                          @ \/ done # DB_import_file(db, title, ext, hash, "none", FALSE)]
             IN  /\ db' = done.db
                 /\ IF done.res = "Ok"
                    THEN /\ cur' = c
                         /\ pc' = "mkdir"
                         /\ ret' = rf
                         /\ entries' = ents
                         /\ UNCHANGED <<clean, inDir, dirStack>>
                    ELSE ImportFileReturns(rf, c, done.res, ents)

\* Repo::import of a path that does not exist
ImportNotFound(p) ==
    /\ pc = "idle"
    /\ ~Exists(p)
    /\ ret' = [Begins("import", p) EXCEPT !.kind = "FileNotFound"]
    /\ pre' = Snapshot
    /\ cur' = NoCall
    /\ UNCHANGED <<src, db, storeDirs, storeFiles, pc, inDir, dirStack, entries, clean>>
    /\ CheckVarsUnchanged

\* Repo::import of a single file
ImportSingle(p, fault, keep) ==
    /\ pc = "idle"
    /\ Exists(p) /\ ~IsDir(p)
    /\ ImportFileDb(p, Begins("import", p), fault, keep, {})
    /\ pre' = Snapshot
    /\ UNCHANGED <<src, storeDirs, storeFiles>>
    /\ CheckVarsUnchanged

\* Repo::import of a directory: import_dir pushes it on the stack
ImportDirStart(p) ==
    /\ pc = "idle"
    /\ IsDir(p)
    /\ pc' = "dir_loop"
    /\ inDir' = TRUE
    /\ dirStack' = <<p>>
    /\ entries' = {}
    /\ ret' = Begins("import", p)
    /\ pre' = Snapshot
    /\ cur' = NoCall
    /\ UNCHANGED <<src, db, storeDirs, storeFiles, clean>>
    /\ CheckVarsUnchanged

\* import_dir: the current directory is exhausted, the next one is popped and read
DirPop ==
    /\ pc = "dir_loop"
    /\ entries = {}
    /\ dirStack # <<>>
    /\ entries' = read_dir(Head(dirStack))
    /\ dirStack' = Tail(dirStack)
    /\ UNCHANGED <<src, db, storeDirs, storeFiles, pc, cur, inDir, ret, clean>>
    /\ Inside

\* import_dir: the stack is empty, Ok(())
DirReturn ==
    /\ pc = "dir_loop"
    /\ entries = {}
    /\ dirStack = <<>>
    /\ pc' = "idle"
    /\ inDir' = FALSE
    /\ ret' = [ret EXCEPT !.kind = "Ok"]
    /\ UNCHANGED <<src, db, storeDirs, storeFiles, cur, dirStack, entries, clean>>
    /\ Inside

\* An import_dir that steps over the directories it meets.
DirPushSubdir_Skipping(e) ==
    /\ pc = "dir_loop"
    /\ e \in entries
    /\ IsDir(e)
    /\ entries' = entries \ {e}
    /\ UNCHANGED <<src, db, storeDirs, storeFiles, pc, cur, inDir, ret, clean, dirStack>>
    /\ Inside

\* import_dir: the next entry is a directory
DirPushSubdir(e) ==
    /\ pc = "dir_loop"
    /\ e \in entries
    /\ IsDir(e)
    /\ entries' = entries \ {e}
    /\ dirStack' = <<e>> \o dirStack
    /\ UNCHANGED <<src, db, storeDirs, storeFiles, pc, cur, inDir, ret, clean>>
    /\ Inside

\* import_dir: the next entry is a file, import_file is called on it
DirImportFile(e, fault, keep) ==
    /\ pc = "dir_loop"
    /\ e \in entries
    /\ ~IsDir(e)
    /\ ImportFileDb(e, ret, fault, keep, entries \ {e})
    /\ UNCHANGED <<src, storeDirs, storeFiles>>
    /\ Inside

\* import_file: fs::create_dir(&store_subfolder)?  create_dir fails when the
\* directory exists already (AlreadyExists), and can fail for other reasons.
ImportFileMkdir(failed) ==
    /\ pc = "mkdir"
    /\ LET sub == store_subfolder(cur.hash)
       IN  IF failed \/ sub \in storeDirs
           THEN /\ ImportFileReturns(ret, cur, "IO", entries)
                /\ UNCHANGED storeDirs
           ELSE /\ storeDirs' = storeDirs \cup {sub}
                /\ pc' = "rename"
                /\ UNCHANGED <<cur, ret, clean, inDir, dirStack, entries>>
    /\ UNCHANGED <<src, db, storeFiles>>
    /\ Inside

\* import_file: fs::rename(file, &store_path) succeeds
ImportFileRename ==
    /\ pc = "rename"
    /\ storeFiles' = WriteStore(store_path(cur.hash, cur.ext), src[cur.path])
    /\ src' = RemoveSrc(cur.path)
    /\ ImportFileReturns(ret, cur, "Ok", entries)
    /\ UNCHANGED <<db, storeDirs>>
    /\ Inside

\* import_file: fs::rename fails with "Invalid cross-device link"
ImportFileRenameCrossDevice ==
    /\ pc = "rename"
    /\ pc' = "copy"
    /\ UNCHANGED <<src, db, storeDirs, storeFiles, cur, inDir, dirStack, entries, ret,
                   clean>>
    /\ Inside

\* import_file: fs::rename fails with any other error
ImportFileRenameFails ==
    /\ pc = "rename"
    /\ ImportFileReturns(ret, cur, "IO", entries)
    /\ UNCHANGED <<src, db, storeDirs, storeFiles>>
    /\ Inside

\* import_file: fs::copy(file, &store_path)? succeeds
ImportFileCopy ==
    /\ pc = "copy"
    /\ storeFiles' = WriteStore(store_path(cur.hash, cur.ext), src[cur.path])
    /\ pc' = "remove"
    /\ UNCHANGED <<src, db, storeDirs, cur, inDir, dirStack, entries, ret, clean>>
    /\ Inside

\* A fallback that removes the source whether or not the copy succeeded.
ImportFileCopyFails_RemovesSource(truncated) ==
    /\ pc = "copy"
    /\ storeFiles' = IF truncated THEN WriteStore(store_path(cur.hash, cur.ext), 0)
                     ELSE storeFiles
    /\ src' = RemoveSrc(cur.path)
    /\ ImportFileReturns(ret, cur, "IO", entries)
    /\ UNCHANGED <<db, storeDirs>>
    /\ Inside

\* import_file: fs::copy fails, before it created the target or after it
\* created (truncated) it and before it wrote the bytes
ImportFileCopyFails(truncated) ==
    /\ pc = "copy"
    /\ storeFiles' = IF truncated THEN WriteStore(store_path(cur.hash, cur.ext), 0)
                     ELSE storeFiles
    /\ ImportFileReturns(ret, cur, "IO", entries)
    /\ UNCHANGED <<src, db, storeDirs>>
    /\ Inside

\* import_file: fs::remove_file(file)?
ImportFileRemove(failed) ==
    /\ pc = "remove"
    /\ src' = IF failed THEN src ELSE RemoveSrc(cur.path)
    /\ ImportFileReturns(ret, cur, IF failed THEN "IO" ELSE "Ok", entries)
    /\ UNCHANGED <<db, storeDirs, storeFiles>>
    /\ Inside

\* The process ends in the middle of an import (a crash, a kill); the repository
\* is opened again by the next run.
Crash ==
    /\ pc \in {"mkdir", "rename", "copy", "remove", "dir_loop"}
    /\ pc' = "idle"
    /\ db' = Reopen(db)
    /\ inDir' = FALSE
    /\ dirStack' = <<>>
    /\ entries' = {}
    /\ cur' = IF cur.kind = "running" THEN [cur EXCEPT !.kind = "crashed"] ELSE cur
    /\ ret' = [ret EXCEPT !.kind = "crashed"]
    /\ clean' = FALSE
    /\ UNCHANGED <<src, storeDirs, storeFiles>>
    /\ Inside

\* The process ends between two operations and the repository is opened again
\* (main.rs opens the repository once per command).
Restart ==
    /\ pc = "idle"
    /\ db.inTx
    /\ db' = Reopen(db)
    /\ UNCHANGED <<src, storeDirs, storeFiles, pc, cur, inDir, dirStack, entries, ret,
                   clean>>
    /\ Inside

----------------------------------------------------------------------------
(* check_data_integrity *)

\* The lines of the report: the fixed text and the values formatted into it.
NotFoundLine(db_hash) ==
    [text |-> "store: file not found in store: ", a |-> db_hash, b |-> <<>>]

RedundantLine(store_hash) ==
    [text |-> "store: redundant file in store: ", a |-> store_hash, b |-> <<>>]

ExtLine(db_ext, store_ext) ==
    [text |-> "ext: different extensions: ", a |-> db_ext, b |-> store_ext]

HashLine(expected_hash, real_hash) ==
    [text |-> "hash: Expected ", a |-> expected_hash, b |-> real_hash]

\* The name of the store directory, the parent of a file put directly into it.
StoreName == <<115, 116, 111, 114, 101>>

\* A stored file's name without a dot: Path::extension() gives None.
NoExtension == <<>>

\* The orders in which check_store_folder can meet the files of the store:
\* read_dir yields the entries of store/ in any order and each shard directory
\* is walked to its end before the next entry, so the files of one shard
\* directory come together.
WalkOrders ==
    {w \in [1 .. Cardinality(storeFiles) -> storeFiles] :
        /\ \A a, b \in DOMAIN w : a # b => w[a] # w[b]
        /\ \A a, b, c \in DOMAIN w :
              (a < b /\ b < c /\ w[a].dir = w[c].dir /\ w[a].dir # StoreName)
              => w[b].dir = w[a].dir}

\* check_store_folder: the claimed hash of a file is its parent directory's name
\* followed by its file stem.
expected_hash_StemOnly(f) == f.stem

expected_hash(f) == f.dir \o f.stem

\* check_store_folder's found_files, for the walk w
found_files(w) == [k \in DOMAIN w |-> <<expected_hash(w[k]), w[k].ext>>]

\* check_store_folder's wrong_hash, for the walk w
WrongHashOf(w) ==
    LET Wrong(f) == expected_hash(f) # Sha224Hex(f.bytes)
        RECURSIVE Lines(_)
        Lines(k) ==
            IF k > Len(w) THEN <<>>
            ELSE (IF Wrong(w[k])
                  THEN <<HashLine(expected_hash(w[k]), Sha224Hex(w[k].bytes))>>
                  ELSE <<>>) \o Lines(k + 1)
    IN  Lines(1)

\* One turn of the merge loops of check_data_integrity, from the indices and the
\* report in m: the two-pointer loop while both lists have entries, then the
\* loop over the rest of db_files, then the loop over the rest of store_files.
MergeStep_NoStoreFlush(dbf, sf, m) ==
    IF m.i < Len(dbf) /\ m.j < Len(sf)
    THEN LET db_hash == dbf[m.i + 1].hash
             db_ext == dbf[m.i + 1].ext
             store_hash == sf[m.j + 1][1]
             store_ext == sf[m.j + 1][2]
         IN  IF db_hash = store_hash
             THEN [i |-> m.i + 1, j |-> m.j + 1,
                   result |-> IF db_ext # store_ext
                              THEN Append(m.result, ExtLine(db_ext, store_ext))
                              ELSE m.result]
             ELSE IF StrLess(db_hash, store_hash)
             THEN [i |-> m.i + 1, j |-> m.j,
                   result |-> Append(m.result, NotFoundLine(db_hash))]
             ELSE [i |-> m.i, j |-> m.j + 1,
                   result |-> Append(m.result, RedundantLine(store_hash))]
    ELSE IF m.i < Len(dbf)
    THEN [i |-> m.i + 1, j |-> m.j,
          result |-> Append(m.result, NotFoundLine(dbf[m.i + 1].hash))]
    ELSE IF m.j < Len(sf)
    THEN [i |-> m.i, j |-> m.j + 1, result |-> m.result]
    ELSE m

\* A merge that reports a redundant file of the store without stepping over it.
MergeStep_NoAdvance(dbf, sf, m) ==
    IF m.i < Len(dbf) /\ m.j < Len(sf)
    THEN LET db_hash == dbf[m.i + 1].hash
             db_ext == dbf[m.i + 1].ext
             store_hash == sf[m.j + 1][1]
             store_ext == sf[m.j + 1][2]
         IN  IF db_hash = store_hash
             THEN [i |-> m.i + 1, j |-> m.j + 1,
                   result |-> IF db_ext # store_ext
                              THEN Append(m.result, ExtLine(db_ext, store_ext))
                              ELSE m.result]
             ELSE IF StrLess(db_hash, store_hash)
             THEN [i |-> m.i + 1, j |-> m.j,
                   result |-> Append(m.result, NotFoundLine(db_hash))]
             ELSE [i |-> m.i, j |-> m.j,
                   result |-> <<RedundantLine(store_hash)>>]
    ELSE IF m.i < Len(dbf)
    THEN [i |-> m.i + 1, j |-> m.j,
          result |-> Append(m.result, NotFoundLine(dbf[m.i + 1].hash))]
    ELSE IF m.j < Len(sf)
    THEN [i |-> m.i, j |-> m.j + 1,
          result |-> Append(m.result, RedundantLine(sf[m.j + 1][1]))]
    ELSE m

\* A merge that, on a match, also steps over a second file of the store with
\* the same hash.
MergeStep_DropsTwin(dbf, sf, m) ==
    IF m.i < Len(dbf) /\ m.j < Len(sf)
    THEN LET db_hash == dbf[m.i + 1].hash
             db_ext == dbf[m.i + 1].ext
             store_hash == sf[m.j + 1][1]
             store_ext == sf[m.j + 1][2]
         IN  IF db_hash = store_hash
             THEN [i |-> m.i + 1,
                   j |-> IF m.j + 1 < Len(sf) /\ sf[m.j + 2][1] = store_hash
                         THEN m.j + 2 ELSE m.j + 1,
                   result |-> IF db_ext # store_ext
                              THEN Append(m.result, ExtLine(db_ext, store_ext))
                              ELSE m.result]
             ELSE IF StrLess(db_hash, store_hash)
             THEN [i |-> m.i + 1, j |-> m.j,
                   result |-> Append(m.result, NotFoundLine(db_hash))]
             ELSE [i |-> m.i, j |-> m.j + 1,
                   result |-> Append(m.result, RedundantLine(store_hash))]
    ELSE IF m.i < Len(dbf)
    THEN [i |-> m.i + 1, j |-> m.j,
          result |-> Append(m.result, NotFoundLine(dbf[m.i + 1].hash))]
    ELSE IF m.j < Len(sf)
    THEN [i |-> m.i, j |-> m.j + 1,
          result |-> Append(m.result, RedundantLine(sf[m.j + 1][1]))]
    ELSE m

MergeStep(dbf, sf, m) ==
    IF m.i < Len(dbf) /\ m.j < Len(sf)
    THEN LET db_hash == dbf[m.i + 1].hash
             db_ext == dbf[m.i + 1].ext
             store_hash == sf[m.j + 1][1]
             store_ext == sf[m.j + 1][2]
         IN  IF db_hash = store_hash
             THEN [i |-> m.i + 1, j |-> m.j + 1,
                   result |-> IF db_ext # store_ext
                              THEN Append(m.result, ExtLine(db_ext, store_ext))
                              ELSE m.result]
             ELSE IF StrLess(db_hash, store_hash)
             THEN [i |-> m.i + 1, j |-> m.j,
                   result |-> Append(m.result, NotFoundLine(db_hash))]
             ELSE [i |-> m.i, j |-> m.j + 1,
                   result |-> Append(m.result, RedundantLine(store_hash))]
    ELSE IF m.i < Len(dbf)
    THEN [i |-> m.i + 1, j |-> m.j,
          result |-> Append(m.result, NotFoundLine(dbf[m.i + 1].hash))]
    ELSE IF m.j < Len(sf)
    THEN [i |-> m.i, j |-> m.j + 1,
          result |-> Append(m.result, RedundantLine(sf[m.j + 1][1]))]
    ELSE m

\* All three loops have ended.
MergeDone(dbf, sf, m) == m.i >= Len(dbf) /\ m.j >= Len(sf)

\* The loops run to their end.
RECURSIVE RunMerge(_, _, _)
RunMerge(dbf, sf, m) ==
    IF MergeDone(dbf, sf, m) THEN m ELSE RunMerge(dbf, sf, MergeStep(dbf, sf, m))

\* check_data_integrity's report for the database view t and the walk w: the
\* lines of the merge, then the hash lines.
Report(t, w) ==
    RunMerge(get_items(t), SortSeq(found_files(w), PairLess),
             [i |-> 0, j |-> 0, result |-> <<>>]).result \o WrongHashOf(w)

\* A check_data_integrity that repairs: it deletes the files of the store that
\* no row of the database claims.
CheckDataIntegrity_Repairing(w) ==
    /\ pc = "idle"
    /\ w \in WalkOrders
    /\ \A f \in storeFiles : f.ext # NoExtension
    /\ ret' = [Begins("check", NoPath) EXCEPT !.kind = "Ok",
                                              !.report = Report(db.cur, w)]
    /\ pre' = Snapshot
    /\ cur' = NoCall
    /\ storeFiles' = {f \in storeFiles :
                         \E it \in db.cur.items : it.hash = expected_hash(f)}
    /\ UNCHANGED <<src, db, storeDirs, pc, inDir, dirStack, entries, clean>>
    /\ CheckVarsUnchanged

\* Repo::check_data_integrity, which returns Ok(result)
CheckDataIntegrity(w) ==
    /\ pc = "idle"
    /\ w \in WalkOrders
    /\ \A f \in storeFiles : f.ext # NoExtension
    /\ ret' = [Begins("check", NoPath) EXCEPT !.kind = "Ok",
                                              !.report = Report(db.cur, w)]
    /\ pre' = Snapshot
    /\ cur' = NoCall
    /\ UNCHANGED <<src, db, storeDirs, storeFiles, pc, inDir, dirStack, entries, clean>>
    /\ CheckVarsUnchanged

\* Repo::check_data_integrity when Repo::hash fails to read a stored file
CheckDataIntegrityFails ==
    /\ pc = "idle"
    /\ storeFiles # {}
    /\ ret' = [Begins("check", NoPath) EXCEPT !.kind = "IO"]
    /\ pre' = Snapshot
    /\ cur' = NoCall
    /\ UNCHANGED <<src, db, storeDirs, storeFiles, pc, inDir, dirStack, entries, clean>>
    /\ CheckVarsUnchanged

\* Repo::check_data_integrity when the walk meets a file whose name has no
\* extension: .expect("Store item must have an extension.") panics and the
\* process ends without a report.
CheckDataIntegrityPanics ==
    /\ pc = "idle"
    /\ \E f \in storeFiles : f.ext = NoExtension
    /\ ret' = [Begins("check", NoPath) EXCEPT !.kind = "panic"]
    /\ pre' = Snapshot
    /\ cur' = NoCall
    /\ db' = Reopen(db)
    /\ UNCHANGED <<src, storeDirs, storeFiles, pc, inDir, dirStack, entries, clean>>
    /\ CheckVarsUnchanged

----------------------------------------------------------------------------
(* The repository driven by one caller *)

\* A new repository, and the three files outside it with any bytes.
Init ==
    /\ src \in [SrcFiles -> Bytes]
    /\ db = DB_new
    /\ storeDirs = {}
    /\ storeFiles = {}
    /\ pc = "idle"
    /\ cur = NoCall
    /\ inDir = FALSE
    /\ dirStack = <<>>
    /\ entries = {}
    /\ db_files = <<>>
    /\ store_files = <<>>
    /\ wrong_hash = <<>>
    /\ i = 0
    /\ j = 0
    /\ result = <<>>
    /\ ret = NoRet
    /\ outside = <<>>
    /\ schema = create_db_schema
    /\ layout = CreatedLayout
    /\ pre = Snapshot
    /\ clean = TRUE

Next ==
    \/ \E p \in SrcFiles : ImportNotFound(p)
    \/ \E p \in SrcFiles, fault \in RepoFaults :
          \E keep \in KeepChoices(fault) : ImportSingle(p, fault, keep)
    \/ \E p \in SrcDirs : ImportDirStart(p)
    \/ DirPop
    \/ DirReturn
    \/ \E e \in SrcDirs : DirPushSubdir(e)
    \/ \E e \in SrcFiles, fault \in RepoFaults :
          \E keep \in KeepChoices(fault) : DirImportFile(e, fault, keep)
    \/ \E failed \in BOOLEAN : ImportFileMkdir(failed)
    \/ ImportFileRename
    \/ ImportFileRenameCrossDevice
    \/ ImportFileRenameFails
    \/ ImportFileCopy
    \/ \E truncated \in BOOLEAN : ImportFileCopyFails(truncated)
    \/ \E failed \in BOOLEAN : ImportFileRemove(failed)
    \/ Crash
    \/ Restart
    \/ \E w \in WalkOrders : CheckDataIntegrity(w)
    \/ CheckDataIntegrityFails

Spec == Init /\ [][Next]_vars

----------------------------------------------------------------------------
(* A directory import whose files libmagic may fail to classify *)

\* import_dir: the next entry is a file and import_file is called on it;
\* magic_cookie.file(file) returns an error (the file cannot be read), and
\* .expect("Libmagic ffi should not fail.") panics: the process ends.
DirImportFilePanics(e) ==
    /\ pc = "dir_loop"
    /\ e \in entries
    /\ ~IsDir(e)
    /\ pc' = "idle"
    /\ db' = Reopen(db)
    /\ inDir' = FALSE
    /\ dirStack' = <<>>
    /\ entries' = {}
    /\ cur' = [NoCall EXCEPT !.path = e, !.bytes = src[e], !.kind = "Magic"]
    /\ ret' = [ret EXCEPT !.kind = "panic"]
    /\ clean' = FALSE
    /\ UNCHANGED <<src, storeDirs, storeFiles>>
    /\ Inside

\* Directory imports on a datastore and a file system that do not fail.
NextDir ==
    \/ \E p \in SrcDirs : ImportDirStart(p)
    \/ DirPop
    \/ DirReturn
    \/ \E e \in SrcDirs : DirPushSubdir(e)
    \/ \E e \in SrcFiles : DirImportFile(e, "none", FALSE)
    \/ ImportFileMkdir(FALSE)
    \/ ImportFileRename
    \/ \E e \in SrcFiles : DirImportFilePanics(e)

SpecDir == Init /\ [][NextDir]_vars

----------------------------------------------------------------------------
(* A directory import run to its end, on a file system and a datastore that
   can fail *)

NextTraverse ==
    \/ \E p \in SrcDirs : ImportDirStart(p)
    \/ DirPop
    \/ DirReturn
    \/ \E e \in SrcDirs : DirPushSubdir(e)
    \/ \E e \in SrcFiles, fault \in RepoFaults :
          \E keep \in KeepChoices(fault) : DirImportFile(e, fault, keep)
    \/ \E failed \in BOOLEAN : ImportFileMkdir(failed)
    \/ ImportFileRename
    \/ ImportFileRenameFails
    \/ \E e \in SrcFiles : DirImportFilePanics(e)
    \/ Restart

\* The thread that runs import_dir is not held up for ever: a step inside the
\* import that can be taken is taken.
SpecTraverse ==
    Init /\ [][NextTraverse]_vars /\ WF_vars(pc # "idle" /\ NextTraverse)

----------------------------------------------------------------------------
(* The repository whose store is also changed from outside: files deleted from
   it and files put into it by hand, between two operations *)

\* The files put into the store by hand: one named after its content, one with
\* other content than its name claims, one with another extension, one put
\* directly into store/, one without an extension.
OutsideFiles ==
    {[dir |-> store_subfolder(Sha224Hex(NumVideos)), stem |-> StoreStem(Sha224Hex(NumVideos)),
      ext |-> Ext_mp4, bytes |-> NumVideos],
     [dir |-> store_subfolder(Sha224Hex(1)), stem |-> StoreStem(Sha224Hex(1)),
      ext |-> Ext_mp4, bytes |-> 0],
     [dir |-> store_subfolder(Sha224Hex(1)), stem |-> StoreStem(Sha224Hex(1)),
      ext |-> Ext_avi, bytes |-> 1],
     [dir |-> StoreName, stem |-> Sha224Hex(1), ext |-> Ext_mp4, bytes |-> 1],
     [dir |-> store_subfolder(Sha224Hex(1)), stem |-> StoreStem(Sha224Hex(1)),
      ext |-> NoExtension, bytes |-> 1]}

\* A file of the store is deleted by hand.
StoreFileDeleted(f) ==
    /\ pc = "idle"
    /\ Len(outside) < MaxOutside
    /\ f \in storeFiles
    /\ storeFiles' = storeFiles \ {f}
    /\ outside' = Append(outside, [kind |-> "deleted", file |-> f])
    /\ UNCHANGED <<src, db, storeDirs, pc, cur, inDir, dirStack, entries, db_files,
                   store_files, wrong_hash, i, j, result, ret, pre, clean, schema,
                   layout>>

\* A file is put into the store by hand, replacing the file of that name if
\* there is one.
StoreFileWritten(f) ==
    /\ pc = "idle"
    /\ Len(outside) < MaxOutside
    /\ f \notin storeFiles
    /\ storeFiles' = WriteStore(f, f.bytes)
    /\ storeDirs' = IF f.dir = StoreName THEN storeDirs ELSE storeDirs \cup {f.dir}
    /\ outside' = Append(outside, [kind |-> "written", file |-> f])
    /\ UNCHANGED <<src, db, pc, cur, inDir, dirStack, entries, db_files,
                   store_files, wrong_hash, i, j, result, ret, pre, clean, schema,
                   layout>>

\* A new repository, and outside it a.mp4 and t.txt with video content and the
\* empty file sub/b.
InitTamper ==
    /\ Init
    /\ src[FileA] # 0
    /\ src[FileT] # 0
    /\ src[FileB] = 0

\* Imports on a datastore and a file system that do not fail, the integrity
\* check, and the changes from outside.
NextTamper ==
    \/ \E p \in SrcFiles : ImportSingle(p, "none", FALSE)
    \/ ImportFileMkdir(FALSE)
    \/ ImportFileRename
    \/ \E w \in WalkOrders : CheckDataIntegrity(w)
    \/ CheckDataIntegrityFails
    \/ CheckDataIntegrityPanics
    \/ \E f \in storeFiles : StoreFileDeleted(f)
    \/ \E f \in OutsideFiles : StoreFileWritten(f)

SpecTamper == InitTamper /\ [][NextTamper]_vars

----------------------------------------------------------------------------
(* The metadata store driven directly: DB::import_file on a new database *)

\* The arguments DB::import_file is called with.
DBTitles == {FileA, FileT}

DBHashes == {Sha224Hex(b) : b \in 1 .. NumVideos}

DBExts == {Ext_mp4, Ext_txt}

\* Everything but the database is at rest.
AtRest ==
    /\ src = << >>
    /\ storeDirs = {}
    /\ storeFiles = {}
    /\ cur = NoCall
    /\ inDir = FALSE
    /\ dirStack = <<>>
    /\ entries = {}
    /\ ret = NoRet
    /\ pre = [src |-> << >>, fresh |-> TRUE, outside |-> 0]
    /\ clean = TRUE
    /\ outside = <<>>
    /\ schema = create_db_schema
    /\ layout = CreatedLayout

InitDB ==
    /\ AtRest
    /\ db = DB_new
    /\ pc = "idle"
    /\ db_files = <<>>
    /\ store_files = <<>>
    /\ wrong_hash = <<>>
    /\ i = 0
    /\ j = 0
    /\ result = <<>>

\* A call of DB::import_file(title, hash, ext) on a datastore that does not fail
DBImportFileCall(title, hash, ext) ==
    /\ pc = "idle"
    /\ LET done == DB_import_file(db, title, hash, ext, "none", FALSE)
       IN  /\ db' = done.db
           /\ cur' = [path |-> title, hash |-> hash, ext |-> ext, bytes |-> 0,
                      kind |-> done.res]
           /\ ret' = [Begins("db_import", title) EXCEPT !.kind = done.res]
    /\ UNCHANGED <<src, storeDirs, storeFiles, pc, inDir, dirStack, entries, pre, clean>>
    /\ CheckVarsUnchanged

NextDB ==
    \E title \in DBTitles, hash \in DBHashes, ext \in DBExts :
        DBImportFileCall(title, hash, ext)

SpecDB == InitDB /\ [][NextDB]_vars

----------------------------------------------------------------------------
(* The metadata store driven directly, on a datastore that can fail any
   statement of DB::import_file *)

\* A call of DB::import_file(title, hash, ext) during which the datastore fails
\* the statement `fault` (or none)
DBImportFileFaulty(title, hash, ext, fault, keep) ==
    /\ pc = "idle"
    /\ LET done == DB_import_file(db, title, hash, ext, fault, keep)
       IN  /\ db' = done.db
           /\ cur' = [path |-> title, hash |-> hash, ext |-> ext, bytes |-> 0,
                      kind |-> done.res]
           /\ ret' = [Begins("db_import", title) EXCEPT
                         !.kind = done.res, !.faulted = fault # "none"]
    /\ UNCHANGED <<src, storeDirs, storeFiles, pc, inDir, dirStack, entries, pre, clean>>
    /\ CheckVarsUnchanged

NextDBFaults ==
    \/ \E title \in DBTitles, hash \in DBHashes, fault \in Faults :
          \E keep \in KeepChoices(fault) :
             DBImportFileFaulty(title, hash, Ext_mp4, fault, keep)
    \/ Restart

SpecDBFaults == InitDB /\ [][NextDBFaults]_vars

----------------------------------------------------------------------------
(* The merge of check_data_integrity on arbitrary sorted lists *)

MergeKeys == {Sha224Hex(b) : b \in 0 .. MaxLen}

MergeExts == {Ext_mp4, Ext_avi}

\* A row of get_items with this hash and extension.
MergeItem(hash, ext) ==
    [hash |-> hash, title |-> NoPath, ext |-> ext, collection_id |-> 1, tags |-> {}]

\* The lists get_items can return: ascending by hash, and no hash twice
\* (hash_index).
SortedDbLists ==
    UNION {{s \in [1 .. n -> {MergeItem(h, e) : h \in MergeKeys, e \in MergeExts}] :
                \A k \in 1 .. n - 1 : StrLess(s[k].hash, s[k + 1].hash)} :
           n \in 0 .. MaxLen}

\* The lists store_files.sort() can leave: ascending as (hash, ext) tuples, no
\* tuple twice (two files of one directory differ in stem or extension).
SortedStoreLists ==
    UNION {{s \in [1 .. n -> MergeKeys \X MergeExts] :
                \A k \in 1 .. n - 1 : PairLess(s[k], s[k + 1])} :
           n \in 0 .. MaxLen}

InitMerge ==
    /\ AtRest
    /\ db = DB_new
    /\ pc = "merge"
    /\ db_files \in SortedDbLists
    /\ store_files \in SortedStoreLists
    /\ wrong_hash \in {<<>>, <<HashLine(Sha224Hex(0), Sha224Hex(1))>>}
    /\ i = 0
    /\ j = 0
    /\ result = <<>>

\* One turn of the merge loops
MergeLoop ==
    /\ pc = "merge"
    /\ ~MergeDone(db_files, store_files, [i |-> i, j |-> j, result |-> result])
    /\ LET m == MergeStep(db_files, store_files, [i |-> i, j |-> j, result |-> result])
       IN  /\ i' = m.i
           /\ j' = m.j
           /\ result' = m.result
    /\ UNCHANGED <<src, db, storeDirs, storeFiles, pc, cur, inDir, dirStack, entries,
                   db_files, store_files, wrong_hash, ret, pre, clean, outside, schema,
                   layout>>

\* The loops have ended: the hash lines are added and Ok(result) is returned
MergeFinish ==
    /\ pc = "merge"
    /\ MergeDone(db_files, store_files, [i |-> i, j |-> j, result |-> result])
    /\ result' = result \o wrong_hash
    /\ ret' = [Begins("check", NoPath) EXCEPT !.kind = "Ok",
                                              !.report = result \o wrong_hash]
    /\ pc' = "idle"
    /\ UNCHANGED <<src, db, storeDirs, storeFiles, cur, inDir, dirStack, entries,
                   db_files, store_files, wrong_hash, i, j, pre, clean, outside,
                   schema, layout>>

NextMerge == MergeLoop \/ MergeFinish

SpecMerge == InitMerge /\ [][NextMerge]_vars

\* The merge as the thread runs it: a loop whose condition holds takes its
\* next turn.
SpecMergeLive == InitMerge /\ [][NextMerge]_vars /\ WF_vars(NextMerge)

----------------------------------------------------------------------------
(* compare_lists: utils.rs *)

\* ListCompareResult::Identical carries no item.
NoItem == <<>>

\* compare_lists(list_a, list_b, compare_key, equality_check); the two closures
\* are functions of the items.  The loop runs over
\* list_a by index; item_b is the item of list_b at the same index.
compare_lists_NoTail(list_a, list_b, compare_key, equality_check) ==
    LET RECURSIVE Loop(_)
        Loop(index) ==
            IF index > Len(list_a)
            THEN [kind |-> "Identical", item |-> NoItem]
            ELSE IF index > Len(list_b)
            THEN [kind |-> "Unexpected", item |-> list_a[index]]
            ELSE LET item_a == list_a[index]
                     item_b == list_b[index]
                 IN  IF compare_key[item_a] > compare_key[item_b]
                     THEN [kind |-> "Missing", item |-> item_b]
                     ELSE IF compare_key[item_a] < compare_key[item_b]
                     THEN [kind |-> "Unexpected", item |-> item_a]
                     ELSE IF ~equality_check[item_a, item_b]
                     THEN [kind |-> "Unequal", item |-> item_b]
                     ELSE Loop(index + 1)
    IN  IF Len(list_a) = 0 /\ Len(list_b) = 0
        THEN [kind |-> "Identical", item |-> NoItem]
        ELSE IF Len(list_a) = 0
        THEN [kind |-> "Missing", item |-> list_b[1]]
        ELSE Loop(1)

compare_lists(list_a, list_b, compare_key, equality_check) ==
    LET RECURSIVE Loop(_)
        Loop(index) ==
            IF index > Len(list_a)
            THEN IF Len(list_a) < Len(list_b)
                 THEN [kind |-> "Missing", item |-> list_b[Len(list_a) + 1]]
                 ELSE [kind |-> "Identical", item |-> NoItem]
            ELSE IF index > Len(list_b)
            THEN [kind |-> "Unexpected", item |-> list_a[index]]
            ELSE LET item_a == list_a[index]
                     item_b == list_b[index]
                 IN  IF compare_key[item_a] > compare_key[item_b]
                     THEN [kind |-> "Missing", item |-> item_b]
                     ELSE IF compare_key[item_a] < compare_key[item_b]
                     THEN [kind |-> "Unexpected", item |-> item_a]
                     ELSE IF ~equality_check[item_a, item_b]
                     THEN [kind |-> "Unequal", item |-> item_b]
                     ELSE Loop(index + 1)
    IN  IF Len(list_a) = 0 /\ Len(list_b) = 0
        THEN [kind |-> "Identical", item |-> NoItem]
        ELSE IF Len(list_a) = 0
        THEN [kind |-> "Missing", item |-> list_b[1]]
        ELSE Loop(1)

----------------------------------------------------------------------------
(* The schema validator: DB::validate_db, DB::validate_table *)

\* The names of the schema, and those given to what is added or renamed, in the
\* order of their bytes: the order of ORDER BY and of Rust's comparison of str.
NameOrder ==
    <<"aaa", "collection_id", "collection_tag", "collections", "ext", "hash",
      "hash_index", "item_id", "items", "name", "studio_id", "table_unexpected",
      "tag_id", "tag_index", "tags", "title", "title_delete", "title_fts",
      "title_fts_config", "title_fts_data", "title_fts_docsize", "title_fts_idx",
      "title_insert", "title_update", "zzz">>

\* The place of a name in the order of bytes.
NameRank(n) == CHOOSE k \in DOMAIN NameOrder : NameOrder[k] = n

\* SELECT ... ORDER BY name, for a set of names
RECURSIVE OrderByName(_)
OrderByName(names) ==
    IF names = {} THEN <<>>
    ELSE LET first == CHOOSE n \in names : \A m \in names : NameRank(n) <= NameRank(m)
         IN  <<first>> \o OrderByName(names \ {first})

\* SELECT name,type FROM pragma_table_info(?) ORDER BY name
RECURSIVE pragma_table_info(_)
pragma_table_info(columns) ==
    IF columns = {} THEN <<>>
    ELSE LET first == CHOOSE c \in columns :
                          \A d \in columns : NameRank(c[1]) <= NameRank(d[1])
         IN  <<first>> \o pragma_table_info(columns \ {first})

EXPECTED_TABLE_NAMES ==
    <<"collection_tag", "collections", "items", "tags", "title_fts",
      "title_fts_config", "title_fts_data", "title_fts_docsize", "title_fts_idx">>

EXPECTED_INDICES == <<"hash_index", "tag_index">>

EXPECTED_TRIGGERS == <<"title_delete", "title_insert", "title_update">>

VERIFY_COLUMNS == <<TRUE, TRUE, TRUE, TRUE, FALSE, FALSE, FALSE, FALSE, FALSE>>

\* Per verified table: the number of its columns and the columns, padded.
EXPECTED_COLUMNS ==
    <<[count |-> Len(<<"collection_id", "tag_id">>),
       columns |-> <<<<"collection_id", "INTEGER">>, <<"tag_id", "INTEGER">>,
                     <<"", "">>, <<"", "">>>>],
      [count |-> Len(<<"collection_id", "title">>),
       columns |-> <<<<"collection_id", "INTEGER">>, <<"title", "TEXT">>,
                     <<"", "">>, <<"", "">>>>],
      [count |-> Len(<<"collection_id", "ext", "hash", "item_id">>),
       columns |-> <<<<"collection_id", "INTEGER">>, <<"ext", "TEXT">>,
                     <<"hash", "VARCHAR(64)">>, <<"item_id", "INTEGER">>>>],
      [count |-> Len(<<"name", "tag_id">>),
       columns |-> <<<<"name", "TEXT">>, <<"tag_id", "INTEGER">>,
                     <<"", "">>, <<"", "">>>>]>>

\* An Error of kind DB with its message: the text and the names formatted into it.
SchemaError(text, name, table, type) ==
    [kind |-> "DB", msg |-> [text |-> text, name |-> name, table |-> table, type |-> type]]

SchemaOk == [kind |-> "Ok", msg |-> [text |-> "", name |-> "", table |-> "", type |-> ""]]

\* The names a schema can hold, the types of its columns, and its columns.
AllNames == {NameOrder[k] : k \in DOMAIN NameOrder}

ColumnTypes == {"INTEGER", "TEXT", "VARCHAR(64)"}

AllColumns == AllNames \X ColumnTypes

\* |table| table: the name itself, compared in the order of bytes
Identity == [table \in AllNames |-> NameRank(table)]

\* |_, _| true
AlwaysEqual == [x \in AllNames, y \in AllNames |-> TRUE]

\* |column| &column.0
ColumnName == [column \in AllColumns |-> NameRank(column[1])]

\* |column_a, column_b| column_a.1 == column_b.1
SameType == [column_a \in AllColumns, column_b \in AllColumns |-> column_a[2] = column_b[2]]

\* A validate_table that does not look at the types of the columns.
validate_table_NoTypes(columns, table_name, expected_columns, expected_column_count) ==
    LET compare_result ==
            compare_lists(pragma_table_info(columns),
                          SubSeq(expected_columns, 1, expected_column_count),
                          ColumnName,
                          [column_a \in AllColumns, column_b \in AllColumns |-> TRUE])
    IN  CASE compare_result.kind = "Missing" ->
                SchemaError("Column {} is missing from table {}.",
                            compare_result.item[1], table_name, "")
          [] compare_result.kind = "Unexpected" ->
                SchemaError("Unexpected column {} in table {}.",
                            compare_result.item[1], table_name, "")
          [] OTHER -> SchemaOk

\* DB::validate_table, for the columns the table has
validate_table(columns, table_name, expected_columns, expected_column_count) ==
    LET compare_result ==
            compare_lists(pragma_table_info(columns),
                          SubSeq(expected_columns, 1, expected_column_count),
                          ColumnName, SameType)
    IN  CASE compare_result.kind = "Missing" ->
                SchemaError("Column {} is missing from table {}.",
                            compare_result.item[1], table_name, "")
          [] compare_result.kind = "Unexpected" ->
                SchemaError("Unexpected column {} in table {}.",
                            compare_result.item[1], table_name, "")
          [] compare_result.kind = "Unequal" ->
                SchemaError("Column {} in table {} should have type {}.",
                            compare_result.item[1], table_name, compare_result.item[2])
          [] OTHER -> SchemaOk

\* The loop of validate_db over EXPECTED_TABLE_NAMES, from table `index` on:
\* the first error of validate_table, or Ok.
RECURSIVE ValidateTables(_, _, _)
ValidateTables(sch, index, columns_index) ==
    IF index > Len(EXPECTED_TABLE_NAMES) THEN SchemaOk
    ELSE IF ~VERIFY_COLUMNS[index] THEN ValidateTables(sch, index + 1, columns_index)
    ELSE LET table == EXPECTED_TABLE_NAMES[index]
             res == validate_table(sch.columns[table], table,
                                   EXPECTED_COLUMNS[columns_index].columns,
                                   EXPECTED_COLUMNS[columns_index].count)
         IN  IF res.kind # "Ok" THEN res
             ELSE ValidateTables(sch, index + 1, columns_index + 1)

\* A validate_db that looks at the indices before anything else.
validate_db_IndicesFirst(sch) ==
    LET tables == compare_lists(OrderByName(sch.tables), EXPECTED_TABLE_NAMES,
                                Identity, AlwaysEqual)
        indices == compare_lists(OrderByName(sch.indices), EXPECTED_INDICES,
                                 Identity, AlwaysEqual)
        triggers == compare_lists(OrderByName(sch.triggers), EXPECTED_TRIGGERS,
                                  Identity, AlwaysEqual)
        structure == ValidateTables(sch, 1, 1)
    IN  IF indices.kind # "Identical"
        THEN SchemaError("Database has unexpected or missing indices.", "", "", "")
        ELSE CASE tables.kind = "Missing" ->
                SchemaError("Table {} is missing from the database.", tables.item, "", "")
          [] tables.kind = "Unexpected" ->
                SchemaError("Unexpected table {} exists in the database.",
                            tables.item, "", "")
          [] tables.kind = "Unequal" ->
                [kind |-> "panic", msg |-> SchemaOk.msg]
          [] OTHER ->
                IF structure.kind # "Ok" THEN structure
                ELSE IF triggers.kind # "Identical"
                THEN SchemaError("Database has unexpected or missing triggers.", "", "", "")
                ELSE SchemaOk

\* DB::validate_db
validate_db(sch) ==
    LET tables == compare_lists(OrderByName(sch.tables), EXPECTED_TABLE_NAMES,
                                Identity, AlwaysEqual)
        indices == compare_lists(OrderByName(sch.indices), EXPECTED_INDICES,
                                 Identity, AlwaysEqual)
        triggers == compare_lists(OrderByName(sch.triggers), EXPECTED_TRIGGERS,
                                  Identity, AlwaysEqual)
        structure == ValidateTables(sch, 1, 1)
    IN  CASE tables.kind = "Missing" ->
                SchemaError("Table {} is missing from the database.", tables.item, "", "")
          [] tables.kind = "Unexpected" ->
                SchemaError("Unexpected table {} exists in the database.",
                            tables.item, "", "")
          [] tables.kind = "Unequal" ->
                [kind |-> "panic", msg |-> SchemaOk.msg]
          [] OTHER ->
                IF structure.kind # "Ok" THEN structure
                ELSE IF indices.kind # "Identical"
                THEN SchemaError("Database has unexpected or missing indices.", "", "", "")
                ELSE IF triggers.kind # "Identical"
                THEN SchemaError("Database has unexpected or missing triggers.", "", "", "")
                ELSE SchemaOk

----------------------------------------------------------------------------
(* An existing database file, changed from outside, is opened *)

\* The number of changes made to the schema from outside the program.
MaxSchemaChanges == 1

\* The names given to tables, indices and triggers that are added or renamed,
\* and those given to columns.
ExtraNames == {"aaa", "table_unexpected", "zzz"}

ExtraColumns == {"aaa", "studio_id", "zzz"}

\* DB::new on a path with a database: validate_db decides.
DBOpen ==
    /\ pc = "idle"
    /\ LET v == validate_db(schema)
       IN  ret' = [Begins("open", NoPath) EXCEPT !.kind = v.kind, !.report = <<v.msg>>]
    /\ pre' = Snapshot
    /\ UNCHANGED <<src, db, storeDirs, storeFiles, pc, cur, inDir, dirStack, entries,
                   clean>>
    /\ CheckVarsUnchanged

\* The schema is changed with another program, while the repository is closed.
SchemaChanged(new) ==
    /\ pc = "idle"
    /\ Len(outside) < MaxSchemaChanges
    /\ new # schema
    /\ schema' = new
    /\ outside' = Append(outside, [kind |-> "schema"])
    /\ UNCHANGED <<src, db, storeDirs, storeFiles, pc, cur, inDir, dirStack, entries,
                   db_files, store_files, wrong_hash, i, j, result, ret, pre, clean,
                   layout>>

TableDropped(t) ==
    /\ t \in schema.tables
    /\ SchemaChanged([schema EXCEPT !.tables = @ \ {t}])

TableAdded(n) ==
    /\ n \notin schema.tables
    /\ SchemaChanged([schema EXCEPT !.tables = @ \cup {n}])

TableRenamed(t, n) ==
    /\ t \in schema.tables
    /\ n \notin schema.tables
    /\ SchemaChanged([schema EXCEPT !.tables = (@ \ {t}) \cup {n}])

ColumnDropped(t, c) ==
    /\ c \in schema.columns[t]
    /\ SchemaChanged([schema EXCEPT !.columns[t] = @ \ {c}])

ColumnAdded(t, n, type) ==
    /\ \A c \in schema.columns[t] : c[1] # n
    /\ SchemaChanged([schema EXCEPT !.columns[t] = @ \cup {<<n, type>>}])

ColumnRenamed(t, c, n) ==
    /\ c \in schema.columns[t]
    /\ \A d \in schema.columns[t] : d[1] # n
    /\ SchemaChanged([schema EXCEPT !.columns[t] = (@ \ {c}) \cup {<<n, c[2]>>}])

ColumnRetyped(t, c, type) ==
    /\ c \in schema.columns[t]
    /\ type # c[2]
    /\ SchemaChanged([schema EXCEPT !.columns[t] = (@ \ {c}) \cup {<<c[1], type>>}])

IndexDropped(x) ==
    /\ x \in schema.indices
    /\ SchemaChanged([schema EXCEPT !.indices = @ \ {x}])

IndexAdded(n) ==
    /\ n \notin schema.indices
    /\ SchemaChanged([schema EXCEPT !.indices = @ \cup {n}])

IndexRenamed(x, n) ==
    /\ x \in schema.indices
    /\ n \notin schema.indices
    /\ SchemaChanged([schema EXCEPT !.indices = (@ \ {x}) \cup {n}])

TriggerDropped(x) ==
    /\ x \in schema.triggers
    /\ SchemaChanged([schema EXCEPT !.triggers = @ \ {x}])

TriggerAdded(n) ==
    /\ n \notin schema.triggers
    /\ SchemaChanged([schema EXCEPT !.triggers = @ \cup {n}])

TriggerRenamed(x, n) ==
    /\ x \in schema.triggers
    /\ n \notin schema.triggers
    /\ SchemaChanged([schema EXCEPT !.triggers = (@ \ {x}) \cup {n}])

\* The tables whose columns validate_db verifies.
DataTables == DOMAIN create_db_schema.columns

NextSchema ==
    \/ DBOpen
    \/ \E t \in AllNames : TableDropped(t)
    \/ \E n \in ExtraNames : TableAdded(n)
    \/ \E t \in AllNames, n \in ExtraNames : TableRenamed(t, n)
    \/ \E t \in DataTables, c \in AllColumns : ColumnDropped(t, c)
    \/ \E t \in DataTables, n \in ExtraColumns, type \in ColumnTypes :
          ColumnAdded(t, n, type)
    \/ \E t \in DataTables, c \in AllColumns, n \in ExtraColumns : ColumnRenamed(t, c, n)
    \/ \E t \in DataTables, c \in AllColumns, type \in ColumnTypes :
          ColumnRetyped(t, c, type)
    \/ \E x \in AllNames : IndexDropped(x)
    \/ \E n \in ExtraNames : IndexAdded(n)
    \/ \E x \in AllNames, n \in ExtraNames : IndexRenamed(x, n)
    \/ \E x \in AllNames : TriggerDropped(x)
    \/ \E n \in ExtraNames : TriggerAdded(n)
    \/ \E x \in AllNames, n \in ExtraNames : TriggerRenamed(x, n)

\* The database file as create_db left it.
InitSchema == InitDB

SpecSchema == InitSchema /\ [][NextSchema]_vars

----------------------------------------------------------------------------
(* A database file that differs from the created one in several places is
   opened *)

\* The schemas one change away from the one create_db gives: a table, a column,
\* an index or a trigger dropped, or a table, an index or a trigger added.
OnceChanged ==
    LET c == create_db_schema
    IN  {[c EXCEPT !.tables = @ \ {t}] : t \in c.tables}
        \cup {[c EXCEPT !.tables = @ \cup {n}] : n \in ExtraNames}
        \cup UNION {{[c EXCEPT !.columns[t] = @ \ {col}] : col \in c.columns[t]} :
                        t \in DataTables}
        \cup {[c EXCEPT !.indices = @ \ {x}] : x \in c.indices}
        \cup {[c EXCEPT !.indices = @ \cup {n}] : n \in ExtraNames}
        \cup {[c EXCEPT !.triggers = @ \ {x}] : x \in c.triggers}
        \cup {[c EXCEPT !.triggers = @ \cup {n}] : n \in ExtraNames}

\* The database file as it is found: created by create_db, or already changed
\* in one place.
InitOrder ==
    /\ src = << >>
    /\ storeDirs = {}
    /\ storeFiles = {}
    /\ cur = NoCall
    /\ inDir = FALSE
    /\ dirStack = <<>>
    /\ entries = {}
    /\ ret = NoRet
    /\ pre = [src |-> << >>, fresh |-> TRUE, outside |-> 0]
    /\ clean = TRUE
    /\ outside = <<>>
    /\ schema \in {create_db_schema} \cup OnceChanged
    /\ layout = CreatedLayout
    /\ db = DB_new
    /\ pc = "idle"
    /\ db_files = <<>>
    /\ store_files = <<>>
    /\ wrong_hash = <<>>
    /\ i = 0
    /\ j = 0
    /\ result = <<>>

NextOrder ==
    \/ DBOpen
    \/ \E t \in AllNames : TableDropped(t)
    \/ \E n \in ExtraNames : TableAdded(n)
    \/ \E t \in DataTables, c \in AllColumns : ColumnDropped(t, c)
    \/ \E t \in DataTables, c \in AllColumns, type \in ColumnTypes :
          ColumnRetyped(t, c, type)
    \/ \E x \in AllNames : IndexDropped(x)
    \/ \E n \in ExtraNames : IndexAdded(n)
    \/ \E x \in AllNames : TriggerDropped(x)
    \/ \E n \in ExtraNames : TriggerAdded(n)

SpecOrder == InitOrder /\ [][NextOrder]_vars

----------------------------------------------------------------------------
(* Repo::new on a directory in any condition *)

\* What the path of store or thumbnail can be: nothing, a directory, a file.
PathKinds == {"none", "dir", "file"}

Layouts == [store : PathKinds, thumbnail : PathKinds, vorg_db : BOOLEAN]

\* A validate_repo that looks at the thumbnail directory first.
validate_repo_ThumbnailFirst(l, sch) ==
    IF l.thumbnail # "dir" THEN "ThumbnailFolder"
    ELSE IF l.store # "dir" THEN "StoreFolder"
    ELSE validate_db(sch).kind

\* Repo::validate_repo: the kind of its result
validate_repo(l, sch) ==
    IF l.store # "dir" THEN "StoreFolder"
    ELSE IF l.thumbnail # "dir" THEN "ThumbnailFolder"
    ELSE validate_db(sch).kind

\* Repo::create_repo: the kind of its result and the directory afterwards.
\* create_dir_all succeeds on a directory that exists and fails on a file.
create_repo(l) ==
    IF l.store = "file" THEN [kind |-> "IO", layout |-> l]
    ELSE IF l.thumbnail = "file"
    THEN [kind |-> "IO", layout |-> [l EXCEPT !.store = "dir"]]
    ELSE [kind |-> "Ok", layout |-> CreatedLayout]

\* Repo::new
RepoNew ==
    /\ pc = "idle"
    /\ IF layout.vorg_db
       THEN /\ ret' = [Begins("new", NoPath) EXCEPT !.kind = validate_repo(layout, schema)]
            /\ UNCHANGED <<layout, schema>>
       ELSE LET created == create_repo(layout)
            IN  /\ ret' = [Begins("new", NoPath) EXCEPT !.kind = created.kind]
                /\ layout' = created.layout
                /\ schema' = IF created.kind = "Ok" THEN create_db_schema ELSE schema
    /\ pre' = Snapshot
    /\ UNCHANGED <<src, db, storeDirs, storeFiles, pc, cur, inDir, dirStack, entries,
                   db_files, store_files, wrong_hash, i, j, result, clean, outside>>

\* The repository directory is changed by hand while no process has it open.
LayoutChanged(new) ==
    /\ pc = "idle"
    /\ Len(outside) < MaxOutside
    /\ new # layout
    /\ layout' = new
    /\ outside' = Append(outside, [kind |-> "layout"])
    /\ UNCHANGED <<src, db, storeDirs, storeFiles, pc, cur, inDir, dirStack, entries,
                   db_files, store_files, wrong_hash, i, j, result, ret, pre, clean,
                   schema>>

\* A directory in any condition; the database file, where there is one, is as
\* create_db left it.
InitOpen ==
    /\ src = << >>
    /\ storeDirs = {}
    /\ storeFiles = {}
    /\ cur = NoCall
    /\ inDir = FALSE
    /\ dirStack = <<>>
    /\ entries = {}
    /\ ret = NoRet
    /\ pre = [src |-> << >>, fresh |-> TRUE, outside |-> 0]
    /\ clean = TRUE
    /\ outside = <<>>
    /\ schema = create_db_schema
    /\ layout \in Layouts
    /\ db = DB_new
    /\ pc = "idle"
    /\ db_files = <<>>
    /\ store_files = <<>>
    /\ wrong_hash = <<>>
    /\ i = 0
    /\ j = 0
    /\ result = <<>>

\* The schema of the database file of the directory is changed by hand.
RepoIndexDropped(x) == layout.vorg_db /\ IndexDropped(x)

RepoTableAdded(n) == layout.vorg_db /\ TableAdded(n)

NextOpen ==
    \/ RepoNew
    \/ \E new \in Layouts : LayoutChanged(new)
    \/ \E x \in AllNames : RepoIndexDropped(x)
    \/ \E n \in ExtraNames : RepoTableAdded(n)

SpecOpen == InitOpen /\ [][NextOpen]_vars

----------------------------------------------------------------------------
(* compare_lists on arbitrary sorted lists of (key, value) pairs.  list_a is
   held in db_files, list_b in store_files; the result is returned in ret. *)

\* The items: a key and a value.
PairItems == (1..(MaxLen + 1)) \X {0, 1}

\* |e| &e.0 and |e1, e2| e1.1 == e2.1
PairKey == [e \in PairItems |-> e[1]]

PairEqual == [e1 \in PairItems, e2 \in PairItems |-> e1[2] = e2[2]]

\* A comparison that does not look at what list_b holds beyond the length of
\* list_a.
compare_by_key_NoTail(list_a, list_b) ==
    compare_lists_NoTail(list_a, list_b, PairKey, PairEqual)

\* A comparison of the keys alone.
compare_by_key_KeysOnly(list_a, list_b) ==
    compare_lists(list_a, list_b, PairKey, [e1 \in PairItems, e2 \in PairItems |-> TRUE])

\* compare_lists(&list_a, &list_b, |e| &e.0, |e1, e2| e1.1 == e2.1)
compare_by_key(list_a, list_b) == compare_lists(list_a, list_b, PairKey, PairEqual)

\* The lists sorted ascending by key, with no key twice.
SortedPairLists ==
    {l \in UNION {[1..n -> PairItems] : n \in 0..MaxLen} :
        \A k \in 1..(Len(l) - 1) : PairKey[l[k]] < PairKey[l[k + 1]]}

InitCompare ==
    /\ AtRest
    /\ db = DB_new
    /\ pc = "idle"
    /\ db_files \in SortedPairLists
    /\ store_files \in SortedPairLists
    /\ wrong_hash = <<>>
    /\ i = 0
    /\ j = 0
    /\ result = <<>>

CompareLists ==
    /\ pc = "idle"
    /\ ret.op # "compare"
    /\ ret' = [Begins("compare", NoPath) EXCEPT
                  !.kind = "Ok", !.report = <<compare_by_key(db_files, store_files)>>]
    /\ UNCHANGED <<src, db, storeDirs, storeFiles, pc, cur, inDir, dirStack, entries,
                   pre, clean>>
    /\ CheckVarsUnchanged

NextCompare == CompareLists

SpecCompare == InitCompare /\ [][NextCompare]_vars

----------------------------------------------------------------------------
(* Properties *)

Count(seq, x) == Cardinality({k \in DOMAIN seq : seq[k] = x})

\* The files of the tree below directory d.
IsUnder(p, d) ==
    LET dp == Append(d.dir, d.stem)
    IN  Len(p.dir) >= Len(dp) /\ SubSeq(p.dir, 1, Len(dp)) = dp

\* C1: after any sequence of DB.import_file calls, successful or rejected, on a
\* new database, no two Item rows have the same hash.
C1_HashUnique == \A a, b \in db.cur.items : a.hash = b.hash => a = b

C1_Witness ==
    /\ ret.op = "db_import"
    /\ ret.kind = "Duplicate"
    /\ Cardinality(db.cur.items) >= 2

\* C2: DB.import_file called with a hash that an Item row already has fails with
\* Duplicate, and the tables hold exactly the rows they held before the call: no
\* transaction is left with rows in it and no Collection row with the rejected
\* title was added.
C2_DuplicateLeavesTablesUnchanged ==
    [][\A title \in DBTitles, hash \in DBHashes, ext \in DBExts :
          (/\ DBImportFileCall(title, hash, ext)
           /\ \E it \in db.cur.items : it.hash = hash)
          => /\ ret'.kind = "Duplicate"
             /\ db'.cur = db.cur
             /\ db'.saved = db.saved
             /\ ~db'.inTx
             /\ \A c \in db'.cur.collections : c.title = title => c \in db.cur.collections
      ]_vars

C2_Witness ==
    /\ ret.op = "db_import"
    /\ ret.kind = "Duplicate"
    /\ \E it \in db.cur.items : it.hash = cur.hash
    /\ ~\E c \in db.cur.collections : c.title = ret.path

\* C3: after Repo.import of a single supported file with content hash h and
\* extension e returned Ok, exactly one Item row has hash h; its ext is e, its
\* collection's title is the source path, and list_items returns (h, e).
C3_ItemRowHoldsHashAndExt ==
    (pc = "idle" /\ ret.op = "import" /\ ~IsDir(ret.path) /\ ret.kind = "Ok")
    => LET rows == {it \in db.cur.items : it.hash = Sha224Hex(cur.bytes)}
           listed == get_items(db.cur)
       IN  /\ Cardinality(rows) = 1
           /\ \A it \in rows :
                 /\ it.ext = cur.ext
                 /\ \E c \in db.cur.collections :
                       c.collection_id = it.collection_id /\ c.title = ret.path
           /\ \E k \in DOMAIN listed :
                 listed[k].hash = Sha224Hex(cur.bytes) /\ listed[k].ext = cur.ext

\* C4: after import_file returned Ok for content with hash h and extension e, the
\* file store/h[0:2]/h[2:].e exists with the bytes of the original, and the
\* source path no longer exists.
C4_PlacedAndSourceGone ==
    cur.kind = "Ok"
    => /\ cur.hash = Sha224Hex(cur.bytes)
       /\ \E f \in storeFiles :
             /\ f.dir = SubSeq(cur.hash, 1, 2)
             /\ f.stem = SubSeq(cur.hash, 3, Len(cur.hash))
             /\ f.ext = cur.ext
             /\ f.bytes = cur.bytes
       /\ cur.path \notin DOMAIN src

C4_Witness ==
    /\ pc = "idle"
    /\ ret.op = "import"
    /\ ~IsDir(ret.path)
    /\ ret.kind = "Ok"
    /\ cur.kind = "Ok"
    /\ storeFiles # {}

\* C5: a directory import into a new repository, of a tree with n supported files
\* of pairwise different content and one extension and with at least one
\* unsupported file, that returned Ok leaves exactly n Item rows, one per
\* supported file, and every unsupported file where it was.
C5_DirImportTakesEverySupportedFile ==
    LET tree == {p \in DOMAIN pre.src : IsUnder(p, ret.path)}
        supported == {p \in tree : magic_file(pre.src[p]) \in DOMAIN SUPPORTED_MIMETYPES}
        unsupported == tree \ supported
    IN  (/\ pc = "idle" /\ ret.op = "import" /\ IsDir(ret.path) /\ ret.kind = "Ok"
         /\ pre.fresh
         /\ ~ret.faulted
         /\ unsupported # {}
         /\ \A p, q \in supported :
               /\ p # q => pre.src[p] # pre.src[q]
               /\ ExtOf(p, Ext_mp4) = ExtOf(q, Ext_mp4))
        => /\ Cardinality(db.cur.items) = Cardinality(supported)
           /\ \A p \in supported :
                 \E c \in db.cur.collections :
                    /\ c.title = p
                    /\ \E it \in db.cur.items : it.collection_id = c.collection_id
           /\ \A p \in unsupported : p \in DOMAIN src /\ src[p] = pre.src[p]

\* C6: creating the shard directory is idempotent: when store/<hash[0:2]> exists
\* already because an earlier import placed a different file with the same
\* prefix, and nothing else fails, the step succeeds and placement goes on.
C6_ExistingShardDirIsNoError ==
    [][(/\ ImportFileMkdir(FALSE)
        /\ store_subfolder(cur.hash) \in storeDirs
        /\ \E f \in storeFiles :
              f.dir = store_subfolder(cur.hash) /\ expected_hash(f) # cur.hash)
          => (pc' = "rename" /\ cur'.kind = "running")]_vars

\* Placement has begun.
Placing == pc \in {"mkdir", "rename", "copy", "remove"}

\* The metadata transaction of the running import_file is committed.
Committed ==
    /\ ~db.inTx
    /\ \E c \in db.saved.collections :
          /\ c.title = cur.path
          /\ \E it \in db.saved.items : it.collection_id = c.collection_id

\* C7: placement is attempted only after the metadata transaction committed, and
\* an import_file that fails with Unsupported, Duplicate or a Database error
\* fails before placement: the source file and the store tree are as before.
C7_PlacementOnlyAfterCommit ==
    [][/\ Placing' => Committed'
       /\ (cur' # cur /\ cur'.kind \in {"Unsupported", "Duplicate", "DB"})
          => /\ ~Placing
             /\ src' = src
             /\ storeDirs' = storeDirs
             /\ storeFiles' = storeFiles
      ]_vars

C7_Witness ==
    /\ pc = "idle"
    /\ ret.op = "import"
    /\ ret.kind = "Duplicate"
    /\ cur.kind = "Duplicate"
    /\ cur.path \in DOMAIN src
    /\ storeFiles # {}

\* C8: in every reachable state, interrupted imports included, every file of the
\* store at the path derived from hash h has an Item row with hash h.
C8_NoStoredFileWithoutItem ==
    \A f \in storeFiles : \E it \in db.saved.items : it.hash = expected_hash(f)

\* Item rows and stored files correspond one to one.
OneToOne ==
    /\ \A it \in db.cur.items : StoredAt(store_path(it.hash, it.ext)) # {}
    /\ \A f \in storeFiles :
          \E it \in db.cur.items : it.hash = expected_hash(f) /\ it.ext = f.ext

\* C9: after imports that each ran to completion without a crash or a failure,
\* Item rows and stored files correspond one to one and check_data_integrity
\* returns the empty report.
C9_CleanImportsLeaveNoDivergence ==
    (pc = "idle" /\ clean)
    => /\ OneToOne
       /\ (ret.op = "check" /\ ret.kind = "Ok") => ret.report = <<>>

\* The store and ext lines of a report.
StoreExtLines(report) == SelectSeq(report, LAMBDA l : l.text # "hash: Expected ")

\* C10: for a database list sorted by hash and a store list sorted by hash, each
\* without a hash twice, the report has exactly one not-found line per hash only
\* in the database list, one redundant line per hash only in the store list, one
\* ext line per hash in both with different extensions, and no other store or
\* ext line.
C10_MergeReportsExactlyTheDivergence ==
    LET dbH == {db_files[k].hash : k \in DOMAIN db_files}
        stH == {store_files[k][1] : k \in DOMAIN store_files}
        differ(a, b) ==
            {h \in dbH \cap stH :
                /\ \E k \in DOMAIN db_files : db_files[k].hash = h /\ db_files[k].ext = a
                /\ \E k \in DOMAIN store_files :
                      store_files[k][1] = h /\ store_files[k][2] = b
                /\ a # b}
        lines == StoreExtLines(ret.report)
    IN  (/\ pc = "idle" /\ ret.op = "check" /\ ret.kind = "Ok"
         /\ Cardinality(stH) = Len(store_files))
        => /\ \A h \in MergeKeys :
                 /\ Count(lines, NotFoundLine(h)) = (IF h \in dbH \ stH THEN 1 ELSE 0)
                 /\ Count(lines, RedundantLine(h)) = (IF h \in stH \ dbH THEN 1 ELSE 0)
           /\ \A a, b \in MergeExts :
                 Count(lines, ExtLine(a, b)) = Cardinality(differ(a, b))
           /\ Len(lines) = Cardinality(dbH \ stH) + Cardinality(stH \ dbH)
                           + Cardinality(UNION {differ(a, b) : a, b \in MergeExts})

C10_Witness ==
    /\ pc = "idle" /\ ret.op = "check" /\ ret.kind = "Ok"
    /\ Len(db_files) = MaxLen
    /\ Cardinality({store_files[k][1] : k \in DOMAIN store_files}) = Len(store_files)
    /\ \E k \in DOMAIN ret.report : ret.report[k].text = "ext: different extensions: "
    /\ \E k \in DOMAIN ret.report : ret.report[k].text = "store: redundant file in store: "

\* The integrity check has just run to its end, on the store as it is now.
Checked ==
    /\ pc = "idle"
    /\ ret.op = "check"
    /\ ret.kind = "Ok"
    /\ pre.outside = Len(outside)

\* C11: after successful imports, when exactly one stored file, with hash h, was
\* deleted from the store by hand and check_data_integrity then ran, the report
\* is the one line "store: file not found in store: h" and nothing else.
C11_DeletedFileIsTheOnlyLine ==
    (/\ Checked
     /\ clean
     /\ Len(outside) = 1
     /\ outside[1].kind = "deleted")
    => ret.report = <<NotFoundLine(expected_hash(outside[1].file))>>

\* C12: check_data_integrity never ends with an error or an abort because the
\* store and the database diverge: whatever files the store holds, it returns a
\* report, or an IO error met while walking the store.
C12_CheckNeverFailsOnDivergence ==
    (pc = "idle" /\ ret.op = "check") => ret.kind \in {"Ok", "IO"}

\* C13: check_data_integrity repairs nothing: it leaves every row of the database
\* and every file and directory of the store as they were, so that a second run
\* right after it (reading the directories in the same order) returns the same
\* report.
C13_CheckChangesNothing ==
    [][\A w \in WalkOrders :
          CheckDataIntegrity(w)
          => /\ db' = db
             /\ storeFiles' = storeFiles
             /\ storeDirs' = storeDirs
             /\ src' = src
             /\ w \in WalkOrders'
             /\ ret'.report = Report(db'.cur, w)
      ]_vars

C13_Witness ==
    /\ Checked
    /\ ret.report # <<>>
    /\ db.cur.items # {}
    /\ \E f \in storeFiles : ~\E it \in db.cur.items : it.hash = expected_hash(f)

\* The hash lines of a report.
HashLines(report) == SelectSeq(report, LAMBDA l : l.text = "hash: Expected ")

\* C14: the walk of the store yields one (claimed hash, ext) pair per file, the
\* claimed hash being the name of the file's directory followed by the file's
\* stem; the report has one hash line, with the claimed and the real hash, for
\* every file whose claimed hash is not the hash of its bytes, and no other hash
\* line; and a file with a wrong claimed hash is merged under its claimed hash.
C14_HashLinesAndClaimedHashes ==
    LET claimed(f) == f.dir \o f.stem
        wrong == {f \in storeFiles : claimed(f) # Sha224Hex(f.bytes)}
        lines == StoreExtLines(ret.report)
        redundant == {k \in DOMAIN lines : lines[k].text = "store: redundant file in store: "}
        notfound == {k \in DOMAIN lines : lines[k].text = "store: file not found in store: "}
    IN  Checked
        => /\ \A f \in storeFiles :
                 Count(ret.report, HashLine(claimed(f), Sha224Hex(f.bytes)))
                    = Cardinality({g \in wrong : /\ claimed(g) = claimed(f)
                                                 /\ g.bytes = f.bytes})
           /\ Len(HashLines(ret.report)) = Cardinality(wrong)
           /\ Cardinality(redundant) - Cardinality(notfound)
                 = Cardinality(storeFiles) - Cardinality(db.cur.items)
           /\ \A f \in wrong :
                 (\A g \in storeFiles : claimed(g) = claimed(f) => g = f)
                 => (Count(lines, RedundantLine(claimed(f))) = 1
                       <=> ~\E it \in db.cur.items : it.hash = claimed(f))

C14_Witness ==
    /\ Checked
    /\ \E f \in storeFiles :
          /\ expected_hash(f) # Sha224Hex(f.bytes)
          /\ HashLine(expected_hash(f), Sha224Hex(f.bytes)) \in
                {ret.report[k] : k \in DOMAIN ret.report}
    /\ \E f \in storeFiles : expected_hash(f) = Sha224Hex(f.bytes)

\* DB::new has just opened the database file as it is now.
Opened ==
    /\ pc = "idle"
    /\ ret.op = "open"
    /\ pre.outside = Len(outside)

\* C15: a database file with the schema create_db gave it passes validate_db when
\* it is opened again.
C15_CreatedSchemaIsValid ==
    (Opened /\ schema = create_db_schema) => ret.kind = "Ok"

C15_Witness ==
    /\ Opened
    /\ schema = create_db_schema
    /\ ret.kind = "Ok"
    /\ ret.report[1].text = ""

\* The first of a set of names, in the order of bytes.
FirstOf(names) == CHOOSE n \in names : \A m \in names : NameRank(n) <= NameRank(m)

\* The names in one of two sets only.
NamesDiffer(have, expected) == (have \ expected) \cup (expected \ have)

\* The names of the columns that one of two tables lacks or that differ in type.
ColumnsDiffer(have, expected) ==
    {c[1] : c \in (have \ expected) \cup (expected \ have)}

\* The verified tables whose columns are not those create_db gave them.
ChangedTables ==
    {t \in DataTables :
        ColumnsDiffer(schema.columns[t], create_db_schema.columns[t]) # {}}

\* What the message must say of the tables and the columns: the first table
\* that is missing or unexpected; else, in the first changed table, the first
\* column that is missing, unexpected or of another type.
NamesFirstTableOrColumn(msg) ==
    LET tables == NamesDiffer(schema.tables, create_db_schema.tables)
        t == FirstOf(ChangedTables)
        n == FirstOf(ColumnsDiffer(schema.columns[t], create_db_schema.columns[t]))
        has == \E c \in schema.columns[t] : c[1] = n
        wants == \E c \in create_db_schema.columns[t] : c[1] = n
    IN  IF tables # {}
        THEN /\ msg.name = FirstOf(tables)
             /\ msg.text = IF FirstOf(tables) \in create_db_schema.tables
                           THEN "Table {} is missing from the database."
                           ELSE "Unexpected table {} exists in the database."
        ELSE /\ msg.table = t
             /\ msg.name = n
             /\ IF has /\ wants
                THEN /\ msg.text = "Column {} in table {} should have type {}."
                     /\ <<n, msg.type>> \in create_db_schema.columns[t]
                ELSE IF wants
                THEN msg.text = "Column {} is missing from table {}."
                ELSE msg.text = "Unexpected column {} in table {}."

Compared == pc = "idle" /\ ret.op = "compare"

KeysOf(list) == {PairKey[list[k]] : k \in DOMAIN list}

ItemAt(list, key) == list[CHOOSE k \in DOMAIN list : PairKey[list[k]] = key]

\* The keys at which list_a and list_b diverge: in one list only, or in both
\* with items that the equality check tells apart.
DivergentKeys(list_a, list_b) ==
    (KeysOf(list_a) \ KeysOf(list_b)) \cup (KeysOf(list_b) \ KeysOf(list_a))
    \cup {key \in KeysOf(list_a) \cap KeysOf(list_b) :
            ~PairEqual[ItemAt(list_a, key), ItemAt(list_b, key)]}

\* C17: for lists sorted ascending by distinct keys, compare_lists returns the
\* divergence with the smallest key, and that one only: Unexpected with the item
\* of list_a when the key is in list_a only, Missing with the item of list_b
\* when it is in list_b only, Unequal with the item of list_b when it is in both.
C17_SmallestDivergenceOnly ==
    (Compared /\ DivergentKeys(db_files, store_files) # {})
    => LET keys == DivergentKeys(db_files, store_files)
           key == CHOOSE k \in keys : \A other \in keys : k <= other
       IN  ret.report[1] =
               IF key \notin KeysOf(store_files)
               THEN [kind |-> "Unexpected", item |-> ItemAt(db_files, key)]
               ELSE IF key \notin KeysOf(db_files)
               THEN [kind |-> "Missing", item |-> ItemAt(store_files, key)]
               ELSE [kind |-> "Unequal", item |-> ItemAt(store_files, key)]

\* Lists that diverge at several keys, the smallest one beyond the end of list_a.
C17_Witness ==
    /\ Compared
    /\ Cardinality(DivergentKeys(db_files, store_files)) > 1
    /\ Len(db_files) < Len(store_files)
    /\ ret.report[1] = [kind |-> "Missing", item |-> store_files[Len(db_files) + 1]]

\* C18: compare_lists returns Identical exactly when the lists have the same
\* length, the same key at every position and items that pass the equality
\* check at every position; two empty lists are identical.
C18_IdenticalIffSameEverywhere ==
    Compared
    => (ret.report[1].kind = "Identical"
        <=> /\ Len(db_files) = Len(store_files)
            /\ \A k \in DOMAIN db_files :
                  /\ PairKey[db_files[k]] = PairKey[store_files[k]]
                  /\ PairEqual[db_files[k], store_files[k]])

C18_Witness ==
    /\ Compared
    /\ ret.report[1].kind = "Identical"
    /\ Len(db_files) = MaxLen
    /\ Len(store_files) = MaxLen

\* DB::import_file has just returned Ok.
DBImported == pc = "idle" /\ ret.op = "db_import" /\ ret.kind = "Ok"

\* The rows of the tags table named meta:Incomplete.
IncompleteTags == {g \in db.cur.tags : g.name = META_INCOMPLETE}

\* C19: after every successful DB.import_file, also one that follows a rejected
\* duplicate, the tag meta:Incomplete is linked to the new collection, and
\* get_items returns the new item with exactly the tag set {meta:Incomplete}.
C19_NewCollectionIsTaggedIncomplete ==
    DBImported
    => /\ \E it \in db.cur.items, c \in db.cur.collections, g \in IncompleteTags :
            /\ it.hash = cur.hash
            /\ c.collection_id = it.collection_id
            /\ c.title = ret.path
            /\ [collection_id |-> c.collection_id, tag_id |-> g.tag_id]
                    \in db.cur.collection_tag
       /\ LET listed == get_items(db.cur)
          IN  /\ \E k \in DOMAIN listed : listed[k].hash = cur.hash
              /\ \A k \in DOMAIN listed :
                    listed[k].hash = cur.hash
                    => /\ listed[k].ext = cur.ext
                       /\ listed[k].title = ret.path
                       /\ listed[k].tags = {META_INCOMPLETE}

\* The second successful import.
C19_Witness ==
    /\ DBImported
    /\ Cardinality(db.cur.items) = 2
    /\ \A k \in DOMAIN get_items(db.cur) :
          get_items(db.cur)[k].tags = {META_INCOMPLETE}

\* C20: after one or more successful imports of different content, the tags
\* table holds exactly one row named meta:Incomplete, and collection_tag links
\* it to every imported collection exactly once (and holds nothing else).
C20_OneIncompleteTagLinkedToAll ==
    (pc = "idle" /\ db.cur.items # {})
    => /\ Cardinality(IncompleteTags) = 1
       /\ db.cur.tags = IncompleteTags
       /\ \A c \in db.cur.collections :
            Cardinality({l \in db.cur.collection_tag :
                            l.collection_id = c.collection_id}) = 1
       /\ db.cur.collection_tag =
            {[collection_id |-> c.collection_id, tag_id |-> g.tag_id] :
                c \in db.cur.collections, g \in IncompleteTags}

C20_Witness ==
    /\ pc = "idle"
    /\ Cardinality(db.cur.collections) = 2
    /\ Cardinality(db.cur.tags) = 1
    /\ Cardinality(db.cur.collection_tag) = 2

\* C21: DB.import_file is all-or-nothing for every failure: when it returns an
\* error at any step, none of the rows of the call is visible afterwards; when
\* it returns Ok, the Collection, Item, Tag and CollectionTag rows all are.
C21_ImportFileIsAllOrNothing ==
    [][\A title \in DBTitles, hash \in DBHashes, ext \in DBExts, fault \in Faults :
          \A keep \in KeepChoices(fault) :
             DBImportFileFaulty(title, hash, ext, fault, keep)
             => IF ret'.kind = "Ok"
                THEN \E c \in db'.cur.collections \ db.cur.collections,
                        it \in db'.cur.items \ db.cur.items,
                        g \in db'.cur.tags :
                        /\ c.title = title
                        /\ it.hash = hash
                        /\ it.collection_id = c.collection_id
                        /\ g.name = META_INCOMPLETE
                        /\ [collection_id |-> c.collection_id, tag_id |-> g.tag_id]
                                \in db'.cur.collection_tag
                ELSE db'.cur = db.cur
      ]_vars

\* C22: after any sequence of imports in any order, get_items returns every
\* Item row exactly once, with the title of its owning Collection and the names
\* of all the tags linked to that Collection, in ascending order of hash.
C22_GetItemsListsEveryItemInHashOrder ==
    pc = "idle"
    => LET listed == get_items(db.cur)
       IN  /\ Len(listed) = Cardinality(db.cur.items)
           /\ \A it \in db.cur.items :
                \E k \in DOMAIN listed :
                    /\ listed[k].hash = it.hash
                    /\ listed[k].ext = it.ext
                    /\ \E c \in db.cur.collections :
                          /\ c.collection_id = it.collection_id
                          /\ listed[k].title = c.title
                          /\ listed[k].tags =
                                {g.name : g \in {g \in db.cur.tags :
                                    \E l \in db.cur.collection_tag :
                                        /\ l.tag_id = g.tag_id
                                        /\ l.collection_id = c.collection_id}}
           /\ \A k \in 1 .. (Len(listed) - 1) :
                StrLess(listed[k].hash, listed[k + 1].hash)

\* Two items, the one with the larger hash imported first.
C22_Witness ==
    /\ pc = "idle"
    /\ Cardinality(db.cur.items) = 2
    /\ \E a, b \in db.cur.items : a.item_id < b.item_id /\ StrLess(b.hash, a.hash)
    /\ \A k \in DOMAIN get_items(db.cur) : get_items(db.cur)[k].tags = {META_INCOMPLETE}

\* C23: in a directory import, a file whose import fails with a kind other than
\* IO (Unsupported, Duplicate, Database, classification) does not end the
\* traversal: import_dir goes on with the entries that are left.
C23_OtherFailuresDoNotEndTraversal ==
    [][(/\ pc = "dir_loop"
        /\ cur' # cur
        /\ cur'.kind \notin {"running", "Ok", "IO"})
       => /\ pc' = "dir_loop"
          /\ entries' = entries \ {cur'.path}
          /\ dirStack' = dirStack
      ]_vars

\* C24: in a directory import, the first file whose import fails with kind IO
\* ends the directory import at once: the IO error is what the caller gets,
\* nothing is left to be imported, and what was imported before stays.
C24_IOFailureEndsDirectoryImport ==
    [][(inDir /\ cur.kind = "running" /\ cur'.kind = "IO")
       => /\ pc' = "idle"
          /\ ret'.op = "import"
          /\ ret'.path = ret.path
          /\ ret'.kind = "IO"
          /\ ~inDir'
          /\ entries' = {}
          /\ dirStack' = <<>>
          /\ db' = db
          /\ storeFiles \subseteq storeFiles'
      ]_vars

\* A directory import ended by an IO error after it had imported a file and
\* before it came to another one.
C24_Witness ==
    /\ pc = "idle"
    /\ ret.op = "import"
    /\ IsDir(ret.path)
    /\ ret.kind = "IO"
    /\ cur.kind = "IO"
    /\ \E f \in storeFiles : f.bytes # 0 /\ expected_hash(f) # cur.hash
    /\ \E p \in DOMAIN src : p # cur.path /\ IsUnder(p, ret.path) /\ src[p] # 0

\* C25: Repo.import of a path that does not exist fails with FileNotFound, and
\* Repo.import of a single file whose MIME type is not supported fails with
\* Unsupported; in both cases no database row is created, the store is
\* unchanged and an existing source file is left in place.
C25_NotFoundAndUnsupportedChangeNothing ==
    [][\A p \in SrcFiles :
          (/\ pc = "idle"
           /\ ret'.path = p
           /\ \/ p \notin DOMAIN src
              \/ src[p] = 0
           /\ \/ ImportNotFound(p)
              \/ \E fault \in RepoFaults :
                    \E keep \in KeepChoices(fault) : ImportSingle(p, fault, keep))
          => /\ pc' = "idle"
             /\ ret'.kind = IF p \notin DOMAIN src THEN "FileNotFound" ELSE "Unsupported"
             /\ db' = db
             /\ storeDirs' = storeDirs
             /\ storeFiles' = storeFiles
             /\ src' = src
      ]_vars

\* An unsupported file was refused after another file had been imported.
C25_Witness ==
    /\ pc = "idle"
    /\ ret.op = "import"
    /\ ret.kind = "Unsupported"
    /\ ret.path \in DOMAIN src
    /\ db.cur.items # {}
    /\ storeFiles # {}

\* A path that does not exist was refused.
C25_WitnessNotFound ==
    /\ pc = "idle"
    /\ ret.op = "import"
    /\ ret.kind = "FileNotFound"
    /\ ret.path \notin DOMAIN src

\* C26: across any sequence of import and check operations, committed rows are
\* never updated or deleted: an Item row and a Collection row that are committed
\* stay committed, and visible, with the same field values in every later state.
C26_CommittedRowsStay ==
    [][/\ db.saved.items \subseteq db'.saved.items
       /\ db.saved.collections \subseteq db'.saved.collections
       /\ db.saved.items \subseteq db'.cur.items
       /\ db.saved.collections \subseteq db'.cur.collections
      ]_vars

\* A committed item has lived through a later import that was cut short and
\* through a check.
C26_Witness ==
    /\ pc = "idle"
    /\ ret.op = "check"
    /\ ~clean
    /\ \E it \in db.saved.items, c \in db.saved.collections :
          /\ it.collection_id = c.collection_id
          /\ c.title \notin DOMAIN src

\* The rows of the tables t refer to rows that exist.
ReferencesExist(t) ==
    /\ \A it \in t.items : CollectionExists(t, it.collection_id)
    /\ \A l \in t.collection_tag :
          /\ CollectionExists(t, l.collection_id)
          /\ \E g \in t.tags : g.tag_id = l.tag_id

\* C27: after any sequence of imports, successful or failing, every Item row
\* references an existing Collection row, and every collection_tag row
\* references an existing Collection row and an existing Tag row.
C27_ReferencesExist == ReferencesExist(db.cur) /\ ReferencesExist(db.saved)

\* A failed import has left its rows in an open transaction, after a successful
\* one.
C27_Witness ==
    /\ pc = "idle"
    /\ ret.op = "db_import"
    /\ ret.kind = "DB"
    /\ db.inTx
    /\ db.saved.collection_tag # {}
    /\ Cardinality(db.cur.items) > Cardinality(db.saved.items)

\* The file import_file was last called on is complete at its source path or at
\* its path in the store.
SourceOrTargetComplete ==
    \/ cur.path \in DOMAIN src /\ src[cur.path] = cur.bytes
    \/ /\ cur.hash # <<>>
       /\ \E f \in StoredAt(store_path(cur.hash, cur.ext)) : f.bytes = cur.bytes

\* C28: when the rename fails because of different devices the file is copied
\* and the source is removed only after the copy succeeded, so that in every
\* state of the placement, also after a crash or a failed copy, the source or
\* the target holds the complete bytes; a rename that fails for another reason
\* is returned as an IO error and leaves the source in place.
C28_SourceOrTargetAlwaysComplete ==
    [][/\ cur'.path # NoPath => SourceOrTargetComplete'
       /\ (pc = "rename" /\ pc' # "copy" /\ cur'.kind \notin {"Ok", "crashed"})
          => /\ cur'.kind = "IO"
             /\ src' = src
             /\ storeFiles' = storeFiles
       /\ (pc = "copy" /\ src' # src) => FALSE
       /\ (pc = "remove" /\ src' # src)
          => \E f \in StoredAt(store_path(cur.hash, cur.ext)) : f.bytes = cur.bytes
      ]_vars

\* The copy failed after it had truncated the target: the source is complete.
C28_Witness ==
    /\ cur.kind = "IO"
    /\ cur.bytes # 0
    /\ cur.path \in DOMAIN src
    /\ \E f \in StoredAt(store_path(cur.hash, cur.ext)) : f.bytes = 0

C30_InterruptedImportIsReported ==
    [][\A c \in db.saved.collections :
          (/\ \E w \in WalkOrders : CheckDataIntegrity(w)
           /\ ~clean
           /\ ~db.inTx
           /\ db.saved.collections = {c}
           /\ \E it \in db.saved.items : it.collection_id = c.collection_id
           /\ c.title \in DOMAIN src
           /\ storeFiles = {})
          => ret'.report = <<NotFoundLine(Sha224Hex(src[c.title]))>>
      ]_vars

\* C31: DB.import_file returns Duplicate only when an Item row with the same
\* hash existed before the call; any other failure of the Item insert is
\* returned as Database.
C31_DuplicateOnlyOnHashConflict ==
    [][\A title \in DBTitles, hash \in DBHashes, ext \in DBExts, fault \in Faults :
          \A keep \in KeepChoices(fault) :
             DBImportFileFaulty(title, hash, ext, fault, keep)
             => /\ ret'.kind = "Duplicate"
                      => \E it \in db.cur.items : it.hash = hash
                /\ (/\ fault = "item"
                    /\ ~db.inTx
                    /\ ~\E it \in db.cur.items : it.hash = hash)
                      => ret'.kind = "DB"
      ]_vars

\* The group of checks a message of validate_db comes from.
GroupOf(msg) ==
    CASE msg.text \in {"Table {} is missing from the database.",
                       "Unexpected table {} exists in the database."} -> "tables"
      [] msg.text \in {"Column {} is missing from table {}.",
                       "Unexpected column {} in table {}.",
                       "Column {} in table {} should have type {}."} -> "columns"
      [] msg.text = "Database has unexpected or missing indices." -> "indices"
      [] msg.text = "Database has unexpected or missing triggers." -> "triggers"
      [] OTHER -> "none"

\* The groups in which the database file differs from the created one.
MismatchedGroups ==
    (IF schema.tables # create_db_schema.tables THEN {"tables"} ELSE {})
    \cup (IF ChangedTables # {} THEN {"columns"} ELSE {})
    \cup (IF schema.indices # create_db_schema.indices THEN {"indices"} ELSE {})
    \cup (IF schema.triggers # create_db_schema.triggers THEN {"triggers"} ELSE {})

GroupOrder == <<"tables", "columns", "indices", "triggers">>

\* The earliest mismatched group.
FirstGroup ==
    LET k == CHOOSE k \in DOMAIN GroupOrder :
                /\ GroupOrder[k] \in MismatchedGroups
                /\ \A m \in 1 .. (k - 1) : GroupOrder[m] \notin MismatchedGroups
    IN  GroupOrder[k]

\* The database file with every group after `group` as create_db gave it, and
\* within the columns every table after the first changed one.
WithoutLaterGroups(group) ==
    CASE group = "tables" -> [create_db_schema EXCEPT !.tables = schema.tables]
      [] group = "columns" ->
            [create_db_schema EXCEPT
                !.columns[FirstOf(ChangedTables)] = schema.columns[FirstOf(ChangedTables)]]
      [] group = "indices" -> [create_db_schema EXCEPT !.indices = schema.indices]
      [] OTHER -> schema

\* C32: validate_db checks table names, then the columns of each data table in
\* table-name order, then indices, then triggers, and stops at the first
\* failing check: with mismatches in several groups the error is that of the
\* earliest group (for columns, of the first changed table), and it is the
\* error the database would give with every later group intact.
C32_FirstFailingGroupIsReported ==
    (Opened /\ MismatchedGroups # {})
    => /\ ret.kind = "DB"
       /\ GroupOf(ret.report[1]) = FirstGroup
       /\ FirstGroup = "columns" => ret.report[1].table = FirstOf(ChangedTables)
       /\ ret.report[1] = validate_db(WithoutLaterGroups(FirstGroup)).msg

\* A table and an index are missing; the error is that of the table.
C32_Witness ==
    /\ Opened
    /\ {"tables", "indices"} \subseteq MismatchedGroups
    /\ ret.kind = "DB"
    /\ GroupOf(ret.report[1]) = "tables"

\* Two data tables have changed columns; the error is that of the first.
C32_WitnessColumns ==
    /\ Opened
    /\ Cardinality(ChangedTables) = 2
    /\ MismatchedGroups = {"columns"}
    /\ ret.report[1].table = FirstOf(ChangedTables)

\* C33: the two-pointer merge of check_data_integrity terminates for all finite
\* lists; each turn advances at least one pointer, by one and never past the
\* end of its list; and at the end both pointers equal the list lengths.
C33_MergeTerminatesAndConsumesAll ==
    /\ [][MergeLoop => /\ i' \in {i, i + 1}
                       /\ j' \in {j, j + 1}
                       /\ i' + j' > i + j
                       /\ i' <= Len(db_files)
                       /\ j' <= Len(store_files)]_vars
    /\ [][MergeFinish => i = Len(db_files) /\ j = Len(store_files)]_vars
    /\ <>(pc = "idle" /\ i = Len(db_files) /\ j = Len(store_files))

\* Both lists are as long as they can be and differ, and the merge has ended.
C33_Witness ==
    /\ pc = "idle"
    /\ ret.op = "check"
    /\ Len(db_files) = MaxLen
    /\ Len(store_files) = MaxLen
    /\ i = MaxLen
    /\ j = MaxLen
    /\ Len(result) > MaxLen

\* C34: after DB.import_file returns, whether Ok or any error, no transaction is
\* left open on the connection, so a following DB.import_file of different
\* content is not failed by the earlier call: it fails only if the datastore
\* fails one of its own statements.
C34_NoTransactionLeftOpen ==
    [][\A title \in DBTitles, hash \in DBHashes, ext \in DBExts, fault \in Faults :
          \A keep \in KeepChoices(fault) :
             DBImportFileFaulty(title, hash, ext, fault, keep)
             => /\ ~db'.inTx
                /\ (/\ fault = "none"
                    /\ ~\E it \in db.cur.items : it.hash = hash)
                      => ret'.kind = "Ok"
      ]_vars

\* What holds of the connection when the datastore fails no statement: no call
\* leaves a transaction open.
C34_NoTransactionLeftOpenWithoutFaults ==
    db.inTx = FALSE

\* The metadata of the file at path p is committed and the file is still at p:
\* its placement failed or was interrupted after the commit.
CommittedAndNotPlaced(p) ==
    /\ p \in DOMAIN src
    /\ \E c \in db.saved.collections, it \in db.saved.items :
          /\ c.title = p
          /\ it.collection_id = c.collection_id

\* C35: when placement fails with IO after the metadata transaction committed,
\* the Item row is kept and the source file stays at its original path; every
\* later import of that same file then fails with Duplicate before placement is
\* attempted, so the file is never placed in the store by a later import.
C35_FailedPlacementIsNeverRetried ==
    [][\A p \in SrcFiles :
          /\ (/\ pc \in {"mkdir", "rename", "copy", "remove"}
              /\ cur.path = p
              /\ pc' = "idle"
              /\ ret'.kind = "IO")
                => CommittedAndNotPlaced(p)'
          /\ \A fault \in RepoFaults : \A keep \in KeepChoices(fault) :
                (/\ pc = "idle"
                 /\ CommittedAndNotPlaced(p)
                 /\ fault = "none"
                 /\ ImportSingle(p, fault, keep))
                    => /\ ret'.kind = "Duplicate"
                       /\ storeFiles' = storeFiles
                       /\ storeDirs' = storeDirs
                       /\ src' = src
      ]_vars

\* C35 on a connection that has no transaction open.
C35_NeverRetriedOnAClosedTransaction ==
    [][\A p \in SrcFiles :
          /\ (/\ pc \in {"mkdir", "rename", "copy", "remove"}
              /\ cur.path = p
              /\ pc' = "idle"
              /\ ret'.kind = "IO")
                => CommittedAndNotPlaced(p)'
          /\ \A fault \in RepoFaults : \A keep \in KeepChoices(fault) :
                (/\ pc = "idle"
                 /\ CommittedAndNotPlaced(p)
                 /\ ImportSingle(p, fault, keep))
                    => /\ ~db.inTx => ret'.kind = "Duplicate"
                       /\ ret'.kind \in {"Duplicate", "DB"}
                       /\ storeFiles' = storeFiles
                       /\ storeDirs' = storeDirs
                       /\ src' = src
      ]_vars

\* The directories import_dir has still to read: pushed and not yet popped, or
\* listed by read_dir and not yet pushed, or below one of these.
RECURSIVE StackSet(_)
StackSet(stack) == IF stack = <<>> THEN {} ELSE {Head(stack)} \cup StackSet(Tail(stack))

\* The files and directories of the tree that the traversal has not reached
\* yet.
Unvisited ==
    {x \in SrcDirs \cup (DOMAIN src) :
        \/ x \in entries
        \/ x \in StackSet(dirStack)
        \/ \E d \in (entries \cup StackSet(dirStack)) \cap SrcDirs : IsUnder(x, d)}

\* C36 as the code has it: a directory import terminates; no file is attempted
\* and no directory read a second time, each step reaches one file or
\* directory, a file by attempting its import and a directory by reading it;
\* and an import that returns Ok has attempted every regular file of the tree
\* and read every subdirectory.
C36_TraversalVisitsEachOnceUnlessEnded ==
    /\ [][\A p \in SrcDirs : ImportDirStart(p)
            => Unvisited' = {x \in SrcDirs \cup (DOMAIN src) : x = p \/ IsUnder(x, p)}]_vars
    /\ [][(inDir /\ inDir')
            => /\ Unvisited' \subseteq Unvisited
               /\ Cardinality(Unvisited \ Unvisited') <= 1
               /\ \A x \in Unvisited \ Unvisited' :
                     IF x \in SrcDirs
                     THEN DirPop /\ entries' = read_dir(x)
                     ELSE \E fault \in RepoFaults : \E keep \in KeepChoices(fault) :
                             DirImportFile(x, fault, keep)]_vars
    /\ [][DirReturn => Unvisited = {} /\ ret'.kind = "Ok"]_vars
    /\ (pc # "idle") ~> (pc = "idle")

\* A directory import returned Ok after it attempted files of both directories.
C36_Witness ==
    /\ pc = "idle"
    /\ ret.op = "import"
    /\ ret.path = SrcRoot
    /\ ret.kind = "Ok"
    /\ cur.path = FileB
    /\ FileA \notin DOMAIN src

\* C36: a directory import terminates and attempts the import of every regular
\* file of the tree exactly once, and reads every subdirectory exactly once:
\* when it ends, nothing is left unvisited.
C36_EveryFileIsAttempted ==
    [][(inDir /\ ~inDir' /\ ret'.kind # "panic")
         => Unvisited = {}]_vars

\* The store entries of the merge that claim hash h, and the first of them in
\* the sorted list: the one with the smallest extension.
TwinsOf(h) == {k \in DOMAIN store_files : store_files[k][1] = h}

FirstTwin(h) == CHOOSE k \in TwinsOf(h) : \A m \in TwinsOf(h) : k <= m

\* C37: when the store list holds two files with the same claimed hash and
\* different extensions and the database list one item with that hash, the
\* merge matches the item against the one with the smaller extension (an ext
\* line is written exactly when the item's extension differs from it) and
\* reports the other with one redundant line; every store entry is matched or
\* reported.
C37_TwinIsReportedRedundant ==
    LET dbH == {db_files[k].hash : k \in DOMAIN db_files}
        stH == {store_files[k][1] : k \in DOMAIN store_files}
        lines == StoreExtLines(ret.report)
        ItemOf(h) == db_files[CHOOSE k \in DOMAIN db_files : db_files[k].hash = h]
        Mismatched == {h \in dbH \cap stH : ItemOf(h).ext # store_files[FirstTwin(h)][2]}
    IN  (pc = "idle" /\ ret.op = "check" /\ ret.kind = "Ok")
        => /\ \A h \in dbH \cap stH :
                 /\ Count(lines, NotFoundLine(h)) = 0
                 /\ Count(lines, RedundantLine(h)) = Cardinality(TwinsOf(h)) - 1
                 /\ \A k \in TwinsOf(h) \ {FirstTwin(h)} :
                       PairLess(store_files[FirstTwin(h)], store_files[k])
           /\ \A h \in stH \ dbH :
                 Count(lines, RedundantLine(h)) = Cardinality(TwinsOf(h))
           /\ \A a, b \in MergeExts :
                 Count(lines, ExtLine(a, b))
                    = Cardinality({h \in Mismatched :
                                      /\ ItemOf(h).ext = a
                                      /\ store_files[FirstTwin(h)][2] = b})
           /\ Len(lines) = Cardinality(dbH \ stH)
                           + (Len(store_files) - Cardinality(dbH \cap stH))
                           + Cardinality(Mismatched)

\* One item, two files of the store with its hash: the item has the larger
\* extension, so the match with the smaller one writes an ext line, and the
\* file with the larger extension is reported redundant.
C37_Witness ==
    /\ pc = "idle" /\ ret.op = "check" /\ ret.kind = "Ok"
    /\ Len(db_files) = 1
    /\ Len(store_files) = 2
    /\ store_files[1][1] = db_files[1].hash
    /\ store_files[2][1] = db_files[1].hash
    /\ db_files[1].ext = store_files[2][2]
    /\ StoreExtLines(ret.report)
          = <<ExtLine(db_files[1].ext, store_files[1][2]),
              RedundantLine(db_files[1].hash)>>

\* C38: on a database mutated only by DB.import_file, after any sequence of
\* successful and rejected imports every Item row has item_id equal to its
\* collection_id, so the tag that import_file attaches with the item_id is
\* linked to the item's own collection.
C38_ItemIdEqualsCollectionId ==
    /\ \A it \in db.cur.items \cup db.saved.items : it.item_id = it.collection_id
    /\ \A l \in db.saved.collection_tag :
          \E it \in db.saved.items :
             /\ it.item_id = l.collection_id
             /\ it.collection_id = l.collection_id
    /\ \A it \in db.saved.items :
          \E l \in db.saved.collection_tag, g \in db.saved.tags :
             /\ l.collection_id = it.collection_id
             /\ l.tag_id = g.tag_id
             /\ g.name = META_INCOMPLETE

\* Two imports have succeeded and the last call was rejected as a duplicate and
\* rolled back.
C38_Witness ==
    /\ pc = "idle"
    /\ ret.op = "db_import"
    /\ ret.kind = "Duplicate"
    /\ ~ret.faulted
    /\ ~db.inTx
    /\ Cardinality(db.cur.items) = 2
    /\ Cardinality(db.cur.collections) = 2
    /\ \E it \in db.cur.items : it.item_id = 2 /\ it.collection_id = 2

====
